---- MODULE Spec2Model ----
(***************************************************************************)
(* Solution pool, budget controller and LNS heuristics of the MIP          *)
(* polishing code (namespace orcs).                                        *)
(*                                                                         *)
(* Numbers.  Objective values and solution coordinates are doubles in the  *)
(* code.  Here they are integers counted in units of half a tolerance      *)
(* (0.5e-5), so that the tolerance 1e-5 is the integer 2 and differences   *)
(* below, at and above the tolerance are all present.                      *)
(***************************************************************************)
EXTENDS Integers, Sequences, FiniteSets, TLC

\* ------------------------------------------------------------------ numbers

\* SolutionPool::SIMILARITY_THRESHOLD = 1e-5, in units of 0.5e-5.
SIMILARITY_THRESHOLD == 2

\* std::numeric_limits<double>::max(): larger than every objective value.
DBL_MAX == 1000

\* Number of successful insertions followed; next_age_ starts from its
\* maximum and is decremented once per insertion, so only the distance from
\* the maximum matters.
MaxInsertions == 3

Abs(x) == IF x < 0 THEN -x ELSE x

\* ------------------------------------------------------------------ inputs

\* Objective values offered to the pool: 8, 9, 10 are a chain of near ties
\* (8~9 and 9~10 are closer than the tolerance, 8 and 10 are not); 12 is
\* away from all of them.
Values == {8, 9, 10, 12}

\* Solution vectors offered to the pool (two variables).  In the second
\* coordinate <<0,1>> is closer than the tolerance to <<0,0>> and exactly the
\* tolerance away from <<0,3>>, while <<0,0>> and <<0,3>> are further apart
\* than the tolerance; the vectors holding a 5 are far from all the others.
Solutions == {<<0, 0>>, <<0, 1>>, <<0, 3>>, <<5, 0>>, <<5, 5>>}

\* Pool capacities tried.
PoolSizes == {0, 1, 2, 3}

Senses == {"Minimize", "Maximize"}

\* ------------------------------------------------------------------- state

VARIABLES
    sense,       \* SolutionPool::sense_ (also the sense of problem and sub-MIP)
    max_size,    \* SolutionPool::max_size_
    sorted,      \* SolutionPool::sorted_
    entries,     \* SolutionPool::entries_ : sequence of [solution, value, age]
    next_age,    \* SolutionPool::next_age_
    call,        \* the last add_entry call: its arguments and its return value
    heuristic,   \* the Heuristic instance main() created: "none", "rothberg", "maravilha"
    pc,          \* position of the control inside Heuristic::run ("idle" outside)
    runs,        \* number of run invocations so far
    timer,       \* cxxtimer::Timer: elapsed seconds
    time_limit,  \* time_limit handed to run
    incumbent_objective,  \* local incumbent_objective of run
    start_objective,      \* callback->getIncumbentObjValue() as read when run started
    reported,    \* <<objective>> of the solution given to callback->setSolution, <<>> if none
    num_mutations,        \* Rothberg::num_mutations_
    num_recombinations,   \* Rothberg::num_recombinations_
    fixing_fraction,      \* Rothberg::fixing_fraction_
    offset,               \* Rothberg::offset_ / Maravilha::offset_
    offset_reduction,     \* Rothberg::offset_reduction_
    offset_minimum,       \* Rothberg::offset_minimum_
    loop_i,               \* loop counter i of the mutation / recombination loop
    consider_all,         \* local consider_all of Rothberg::run
    iterations,           \* Maravilha::iterations_
    submip_nodes_unsuccessful,  \* submip_nodes_unsuccessful_ of either heuristic
    submip_min,           \* Maravilha::submip_min_
    submip_max,           \* Maravilha::submip_max_
    current_iteration,    \* local current_iteration of Maravilha::run
    submip_status,        \* submip_.cplex.getStatus() after the last sub-MIP solve
    submip_has_improved,  \* whether the last sub-MIP solve improved the incumbent
    mip_start,   \* <<start>> handed to addMIPStart for the last solve, <<>> if none
    modes,       \* modes of the recombination iterations of the current run
    chain_base,  \* <<f>>: fixing fraction at the start of a run whose mutations
                 \* so far all ended Infeasible; <<>> otherwise
    selected,    \* indices of the pool entries the last sub-MIP was built from
    random_draws,  \* values random_() returned for the last selection followed
    incumbent_solution,  \* local incumbent_solution of Maravilha::run
    relaxed_solution,    \* local relaxed_solution of Maravilha::run
    relaxed_objective,   \* local relaxed_objective of Maravilha::run
    bias,                \* local bias of one iteration (a double, maybe NaN)
    differences,         \* Maravilha::differences_
    sum_differences,     \* local sum_differences
    variables_available, \* Maravilha::variables_available_
    submip_size,         \* local submip_size
    count,               \* loop counter count of "Build the sub-MIP"
    bounds,      \* [lb, ub] of each 0/1 variable of submip_
    freed,       \* the variables whose bounds the build loop freed, in order
    frequency,       \* HeuristicCallback::frequency_
    nodes_explored,  \* getNnodes64() as the next heuristic callback reads it
    timer_set,           \* AbortCallback::timer_ != nullptr
    nodes_limit_arg,     \* the nodes_limit the caller of create_instance wrote
    nodes_limit,         \* AbortCallback::nodes_limit_
    nodes_unsuccessful,  \* AbortCallback::nodes_unsuccessful_
    initialized,         \* AbortCallback::initialized_
    aborted,             \* AbortCallback::aborted_
    obj_last_incumbent,    \* AbortCallback::obj_last_incumbent_
    nodes_last_incumbent,  \* AbortCallback::nodes_last_incumbent_
    polls,                 \* number of calls of AbortCallback::main so far
    nnodes,                \* getNnodes64() as read by the last poll
    obj_current_incumbent, \* getIncumbentObjValue() as read by the last poll
    abort_called           \* whether the last poll called abort()

pool_state == <<entries, next_age, call>>

pool_config == <<sense, max_size, sorted>>

run_state == <<pc, runs, timer, incumbent_objective, start_objective, reported,
               loop_i, consider_all, current_iteration>>

heuristic_config == <<heuristic, time_limit, num_mutations, num_recombinations,
                      offset_reduction, offset_minimum, iterations,
                      submip_nodes_unsuccessful>>

adaptive_state == <<fixing_fraction, offset, submip_min, submip_max>>

submip_state == <<submip_status, submip_has_improved, mip_start, modes, chain_base,
                  selected>>

build_state ==
    <<incumbent_solution, relaxed_solution, relaxed_objective, bias,
      differences, sum_differences, variables_available, submip_size, count,
      bounds, freed>>

construction_state == <<random_draws, build_state>>

callback_state == <<frequency, nodes_explored>>

abort_config == <<timer_set, nodes_limit_arg, nodes_limit, nodes_unsuccessful>>

abort_state == <<initialized, aborted, obj_last_incumbent, nodes_last_incumbent,
                 polls, nnodes, obj_current_incumbent, abort_called>>

vars == <<pool_config, pool_state, heuristic_config, run_state, adaptive_state,
          submip_state, callback_state, abort_config, abort_state,
          construction_state>>

\* ------------------------------------------------------ SolutionPool helpers

\* Mutant: the candidate is compared for equality, without the tolerance.
Similar_Exact(a, b) == a = b

\* Mutant: a coordinate at exactly the threshold already tells two
\* solutions apart.
Similar_Strict(a, b) ==
    \A j \in 1..Len(a) : Abs(a[j] - b[j]) < SIMILARITY_THRESHOLD

\* add_entry, similarity test of one entry: `equal` stays true unless some
\* coordinate differs by more than the threshold.
Similar(a, b) ==
    \A j \in 1..Len(a) : ~(Abs(a[j] - b[j]) > SIMILARITY_THRESHOLD)

\* Mutant: only the first entry is compared with the candidate.
HasSimilar_FirstOnly(es, solution) ==
    Len(es) >= 1 /\ Similar(solution, es[1].solution)

\* add_entry returns false at the first entry similar to the candidate.
HasSimilar(es, solution) ==
    \E i \in 1..Len(es) : Similar(solution, es[i].solution)

\* Initial worst_val: -DBL_MAX when minimizing, DBL_MAX when maximizing.
\* Mutant: worst_val starts at the lowest double for either sense.
WorstInit_Lowest(s) == -DBL_MAX

WorstInit(s) == IF s = "Minimize" THEN -DBL_MAX ELSE DBL_MAX

\* "Find the worst": entries_[i].value > worst_val (Minimize), < (Maximize).
WorseThan(s, v, w) == IF s = "Minimize" THEN v > w ELSE v < w

\* The scan of add_entry for the worst entry: worst_idx starts at the first
\* position and moves only on a strictly worse value.
RECURSIVE ScanWorst(_, _, _, _, _)
ScanWorst(es, s, i, widx, wval) ==
    IF i > Len(es) THEN [idx |-> widx, val |-> wval]
    ELSE IF WorseThan(s, es[i].value, wval)
         THEN ScanWorst(es, s, i + 1, i, es[i].value)
         ELSE ScanWorst(es, s, i + 1, widx, wval)

\* Mutant: worst_idx stays at the first position, worst_val is the worst.
FindWorst_IndexKept(es, s) ==
    [idx |-> 1, val |-> ScanWorst(es, s, 1, 1, WorstInit(s)).val]

FindWorst(es, s) == ScanWorst(es, s, 1, 1, WorstInit(s))

\* Mutant: the replacement test with the senses swapped.
BetterThanWorst_Inverted(s, value, worst_val) ==
    IF s = "Minimize" THEN value > worst_val ELSE value < worst_val

\* Mutant: a candidate equal to the worst objective also replaces it.
BetterThanWorst_OrEqual(s, value, worst_val) ==
    IF s = "Minimize" THEN value <= worst_val ELSE value >= worst_val

\* Replacement test of a full pool: value < worst_val (Minimize), > (Maximize).
BetterThanWorst(s, value, worst_val) ==
    IF s = "Minimize" THEN value < worst_val ELSE value > worst_val

\* The comparator handed to std::sort.
Comp(s, entry1, entry2) ==
    IF Abs(entry1.value - entry2.value) < SIMILARITY_THRESHOLD
    THEN entry1.age < entry2.age
    ELSE IF s = "Minimize" THEN entry1.value < entry2.value
         ELSE entry1.value > entry2.value

Arrangements(n) ==
    {p \in [1..n -> 1..n] : \A i, j \in 1..n : p[i] = p[j] => i = j}

\* std::sort requires its comparator to be a strict weak ordering of the
\* elements sorted.
IsStrictWeakOrdering(es, s) ==
    LET n == Len(es)
        lt(i, j) == Comp(s, es[i], es[j])
        eq(i, j) == ~lt(i, j) /\ ~lt(j, i)
    IN /\ \A i \in 1..n : ~lt(i, i)
       /\ \A i, j, k \in 1..n : lt(i, j) /\ lt(j, k) => lt(i, k)
       /\ \A i, j, k \in 1..n : eq(i, j) /\ eq(j, k) => eq(i, k)

IsSorted(es, s) ==
    \A i, j \in 1..Len(es) : i < j => ~Comp(s, es[j], es[i])

\* Outcomes of std::sort(entries_.begin(), entries_.end(), comp): a sorted
\* permutation when comp is a strict weak ordering of the entries; otherwise
\* the call has undefined behaviour and any arrangement may come out.
SortOutcomes(es, s) ==
    LET perms == {[i \in 1..Len(es) |-> es[p[i]]] : p \in Arrangements(Len(es))}
    IN IF IsStrictWeakOrdering(es, s)
       THEN {q \in perms : IsSorted(q, s)}
       ELSE perms

NewEntry(solution, value, age) ==
    [solution |-> solution, value |-> value, age |-> age]

\* Mutant: the capacity test is off by one, a full pool still appends.
Inserted_AppendWhenFull(es, age, max, s, solution, value) ==
    IF Len(es) <= max
    THEN <<Append(es, NewEntry(solution, value, age))>>
    ELSE <<>>

\* Mutant: the objective test is applied under capacity too.
Inserted_RejectWorse(es, age, max, s, solution, value) ==
    LET worst == FindWorst(es, s)
    IN IF Len(es) = 0
       THEN <<Append(es, NewEntry(solution, value, age))>>
       ELSE IF ~BetterThanWorst(s, value, worst.val)
            THEN <<>>
            ELSE IF Len(es) < max
                 THEN <<Append(es, NewEntry(solution, value, age))>>
                 ELSE <<[es EXCEPT ![worst.idx] = NewEntry(solution, value, age)]>>

\* Mutant: the worst entry is erased and the candidate appended at the end.
Inserted_EraseAndAppend(es, age, max, s, solution, value) ==
    LET worst == FindWorst(es, s)
    IN IF Len(es) < max
       THEN <<Append(es, NewEntry(solution, value, age))>>
       ELSE IF BetterThanWorst(s, value, worst.val)
            THEN <<Append(SubSeq(es, 1, worst.idx - 1) \o
                              SubSeq(es, worst.idx + 1, Len(es)),
                          NewEntry(solution, value, age))>>
            ELSE <<>>

\* The insertion branches of add_entry: <<entries after the insertion>>, or
\* the empty tuple when neither branch is taken.
Inserted(es, age, max, s, solution, value) ==
    LET worst == FindWorst(es, s)
    IN IF Len(es) < max
       THEN <<Append(es, NewEntry(solution, value, age))>>
       ELSE IF BetterThanWorst(s, value, worst.val)
            THEN <<[es EXCEPT ![worst.idx] = NewEntry(solution, value, age)]>>
            ELSE <<>>

\* SolutionPool::add_entry as a relation: the possible results
\* [entries, next_age, inserted] of one call.
AddEntry(es, age, max, s, srt, solution, value) ==
    IF HasSimilar(es, solution)
    THEN {[entries |-> es, next_age |-> age, inserted |-> FALSE]}
    ELSE LET ins == Inserted(es, age, max, s, solution, value)
         IN IF ins = <<>>
            THEN {[entries |-> es, next_age |-> age, inserted |-> FALSE]}
            ELSE {[entries |-> q, next_age |-> age - 1, inserted |-> TRUE] :
                    q \in (IF srt THEN SortOutcomes(ins[1], s) ELSE {ins[1]})}

\* ----------------------------------------------------------------- the pool

NoCall == [solution |-> <<0, 0>>, value |-> 0, inserted |-> FALSE, made |-> FALSE]

\* No construction of a sub-MIP is followed.
NoBuild ==
    /\ incumbent_solution = <<>> /\ relaxed_solution = <<>>
    /\ relaxed_objective = 0
    /\ bias = <<>> /\ differences = <<>> /\ sum_differences = <<>>
    /\ variables_available = {} /\ submip_size = 0 /\ count = 0
    /\ bounds = <<>> /\ freed = <<>>

\* No heuristic: main() created none, nothing runs.
NoRun ==
    /\ heuristic = "none" /\ pc = "idle" /\ runs = 0
    /\ incumbent_objective = 0 /\ start_objective = 0 /\ reported = <<>>
    /\ num_mutations = 0 /\ num_recombinations = 0
    /\ fixing_fraction = 0 /\ offset = 0
    /\ offset_reduction = 0 /\ offset_minimum = 0
    /\ loop_i = 0 /\ consider_all = 0
    /\ iterations = 0 /\ submip_min = 0 /\ submip_max = 0
    /\ submip_nodes_unsuccessful = 0
    /\ current_iteration = 0
    /\ submip_status = "Unknown" /\ submip_has_improved = FALSE
    /\ mip_start = <<>> /\ modes = <<>> /\ chain_base = <<>>
    /\ selected = <<>> /\ random_draws = <<>> /\ NoBuild
    /\ frequency = 0 /\ nodes_explored = 0

\* The pool used on its own: no heuristic, the timer is not started.
NoHeuristic == NoRun /\ timer = 0 /\ time_limit = 0

\* No AbortCallback is followed.
NoAbortCallback ==
    /\ timer_set = FALSE /\ nodes_limit_arg = 0 /\ nodes_limit = 0
    /\ nodes_unsuccessful = 0
    /\ initialized = FALSE /\ aborted = FALSE
    /\ obj_last_incumbent = 0 /\ nodes_last_incumbent = 0
    /\ polls = 0 /\ nnodes = 0 /\ obj_current_incumbent = 0
    /\ abort_called = FALSE

\* SolutionPool::SolutionPool: an empty pool, next_age_ at its maximum.
PoolInit ==
    /\ sense \in Senses
    /\ max_size \in PoolSizes
    /\ sorted \in BOOLEAN
    /\ entries = <<>>
    /\ next_age = MaxInsertions
    /\ call = NoCall
    /\ NoHeuristic
    /\ NoAbortCallback

\* One call of SolutionPool::add_entry(solution, value).
add_entry(solution, value) ==
    /\ next_age > 0
    /\ \E r \in AddEntry(entries, next_age, max_size, sense, sorted, solution, value) :
          /\ entries' = r.entries
          /\ next_age' = r.next_age
          /\ call' = [solution |-> solution, value |-> value,
                      inserted |-> r.inserted, made |-> TRUE]
    /\ UNCHANGED <<pool_config, heuristic_config, run_state, adaptive_state,
                   submip_state, callback_state, abort_config, abort_state,
                   construction_state>>

PoolNext == \E solution \in Solutions, value \in Values : add_entry(solution, value)

PoolSpec == PoolInit /\ [][PoolNext]_vars

\* -------------------------------------------------------------- heuristics

\* Heuristic::THRESHOLD = 1e-5, in units of 0.5e-5.
THRESHOLD == 2

\* The double 1.0 of the fractions fixing_fraction_, offset_, submip_min_ and
\* submip_max_, which are counted in 64ths.
ONE == 64

\* Number of run invocations followed.
\* std::numeric_limits<long>::max(), the default of
\* submip_nodes_unsuccessful_, in a word of 10 bits.
LONG_MAX == 511

MaxRuns == 2

\* Number of nodes of the search at which the heuristic callback is followed.
MaxNodes == 3

\* Values of --heuristic-frequency.
Frequencies == {0, 1, 2}

Min2(a, b) == IF a < b THEN a ELSE b

Max2(a, b) == IF a > b THEN a ELSE b

\* Product of two fractions counted in 64ths.
Mul(a, b) == (a * b) \div ONE

\* IloAlgorithm::Status after cplex.solve() returned true / false.
FoundStatuses == {"Optimal", "Feasible"}

NotFoundStatuses == {"Infeasible", "Unknown", "Error"}

\* Objective value of each solution vector of the problem.
Objective(x) ==
    CASE x = <<0, 0>> -> 10
      [] x = <<0, 1>> -> 10
      [] x = <<0, 3>> -> 9
      [] x = <<5, 0>> -> 8
      [] x = <<5, 5>> -> 7

\* Solutions a sub-MIP may end with.
SubmipSolutions == {<<0, 1>>, <<0, 3>>, <<5, 0>>, <<5, 5>>}

\* What one sub-MIP solve may return: submip_.cplex.solve(), getStatus(),
\* getValues() and getObjValue().
SubmipOutcomes ==
    {[found |-> TRUE, status |-> st, solution |-> x, value |-> Objective(x)] :
        st \in FoundStatuses, x \in SubmipSolutions}
    \cup {[found |-> FALSE, status |-> st, solution |-> <<0, 0>>, value |-> 0] :
            st \in NotFoundStatuses}

\* Seconds one sub-MIP solve may take.
SolveTimes == {0, 1}

\* Incumbent objectives the orchestrator may hold when run is called.
IncumbentValues == {7, 10}

\* The incumbent objectives the callback may read at the next node: the
\* incumbent of the search never gets worse than the solution the last run
\* handed back.
NextIncumbents ==
    IF reported = <<>>
    THEN IncumbentValues
    ELSE {v \in IncumbentValues :
             IF sense = "Minimize" THEN v <= reported[1] ELSE v >= reported[1]}

TimeLimits == {1}

\* Values random_() % 0 may leave in consider_all where the division does
\* not trap.
RandomValues == {0, 1}

\* Configurations of Rothberg.  The command line asks for fractions within
\* [0,1] (main.cpp, --rothberg-*); neither main() nor the constructor checks
\* them, so the last configuration (a fixing fraction of 1.5) is accepted too.
RothbergConfigs ==
    {[num_mutations |-> 1, num_recombinations |-> 2, fixing_fraction |-> 32,
      offset |-> 16, offset_reduction |-> 16, offset_minimum |-> 1],
     [num_mutations |-> 1, num_recombinations |-> 0, fixing_fraction |-> 0,
      offset |-> 64, offset_reduction |-> 0, offset_minimum |-> 0],
     [num_mutations |-> 2, num_recombinations |-> 1, fixing_fraction |-> 64,
      offset |-> 48, offset_reduction |-> 64, offset_minimum |-> 8],
     [num_mutations |-> 1, num_recombinations |-> 1, fixing_fraction |-> 96,
      offset |-> 16, offset_reduction |-> 16, offset_minimum |-> 1]}

\* Configurations of Maravilha.  The command line asks for values within
\* [0,1] (main.cpp, --maravilha-*); neither main() nor the constructor checks
\* them, so the last configuration (an offset of 1.5) is accepted too.
MaravilhaConfigs ==
    {[iterations |-> 2, submip_min |-> 0, submip_max |-> 64, offset |-> 32],
     [iterations |-> 1, submip_min |-> 16, submip_max |-> 48, offset |-> 64],
     [iterations |-> 2, submip_min |-> 8, submip_max |-> 40, offset |-> 0],
     [iterations |-> 1, submip_min |-> 0, submip_max |-> 40, offset |-> 96]}

\* Capacity of the pool main() creates for the heuristics.
HeurPoolSizes == {2}

\* Incumbents the first phase of main() found before the heuristic starts;
\* PoolCallback::main hands each one to add_entry.
PhaseOne(s) ==
    IF s = "Minimize"
    THEN <<[solution |-> <<0, 0>>, value |-> 10], [solution |-> <<0, 3>>, value |-> 9]>>
    ELSE <<[solution |-> <<0, 3>>, value |-> 9], [solution |-> <<0, 0>>, value |-> 10]>>

\* The pools after the first k calls of PoolCallback::main.
RECURSIVE Replay(_, _, _, _)
Replay(calls, k, s, max) ==
    IF k = 0
    THEN {[entries |-> <<>>, next_age |-> MaxInsertions + Len(calls), call |-> NoCall]}
    ELSE UNION {
           {[entries |-> r.entries, next_age |-> r.next_age,
             call |-> [solution |-> calls[k].solution, value |-> calls[k].value,
                       inserted |-> r.inserted, made |-> TRUE]] :
              r \in AddEntry(p.entries, p.next_age, max, s, TRUE,
                             calls[k].solution, calls[k].value)} :
           p \in Replay(calls, k - 1, s, max)}

\* Mutant: the adoption test with the senses swapped.
Improves_Inverted(s, value, incumbent) ==
    \/ s = "Minimize" /\ value > incumbent + THRESHOLD
    \/ s = "Maximize" /\ value < incumbent - THRESHOLD

\* "Check if the new solution is better than the current incumbent".
Improves(s, value, incumbent) ==
    \/ s = "Minimize" /\ value < incumbent - THRESHOLD
    \/ s = "Maximize" /\ value > incumbent + THRESHOLD

\* Mutant: the solution found is compared with the incumbent the run started
\* from.
HasImproved_FromStart(out) == out.found /\ Improves(sense, out.value, start_objective)

\* submip_has_improved after the harvest of one solve.
HasImproved(out) == out.found /\ Improves(sense, out.value, incumbent_objective)

\* Mutant: what the solver holds is harvested whether or not solve() found
\* a solution.
Harvest_Unchecked(out) ==
    /\ \E r \in AddEntry(entries, next_age, max_size, sense, sorted,
                         out.solution, out.value) :
          /\ entries' = r.entries
          /\ next_age' = r.next_age
          /\ call' = [solution |-> out.solution, value |-> out.value,
                      inserted |-> r.inserted, made |-> TRUE]
    /\ incumbent_objective' =
           IF Improves(sense, out.value, incumbent_objective)
           THEN out.value ELSE incumbent_objective

\* Mutant: the solution found is adopted only if the pool took it.
Harvest_IfInserted(out) ==
    IF out.found
    THEN \E r \in AddEntry(entries, next_age, max_size, sense, sorted,
                           out.solution, out.value) :
            /\ entries' = r.entries
            /\ next_age' = r.next_age
            /\ call' = [solution |-> out.solution, value |-> out.value,
                        inserted |-> r.inserted, made |-> TRUE]
            /\ incumbent_objective' =
                   IF r.inserted /\ HasImproved(out)
                   THEN out.value ELSE incumbent_objective
    ELSE UNCHANGED pool_state /\ UNCHANGED incumbent_objective

\* The harvest of one solve: the solution found, if any, is offered to the
\* pool and adopted as incumbent when it improves on it.
Harvest(out) ==
    /\ IF out.found
       THEN \E r \in AddEntry(entries, next_age, max_size, sense, sorted,
                              out.solution, out.value) :
               /\ entries' = r.entries
               /\ next_age' = r.next_age
               /\ call' = [solution |-> out.solution, value |-> out.value,
                           inserted |-> r.inserted, made |-> TRUE]
       ELSE UNCHANGED pool_state
    /\ incumbent_objective' =
           IF HasImproved(out) THEN out.value ELSE incumbent_objective

\* Mutant: the loops stop only once the limit is passed.
TimeUp_Passed == timer > time_limit

\* The stop criterion of the loops: timer->count() / 1000.0 >= time_limit.
TimeUp == timer >= time_limit

\* Mutant: the increase of the fixing fraction is not capped at 1.
FixingUpdate_NoCap(ff, off, improved, status) ==
    IF improved THEN ff
    ELSE IF status \in {"Optimal", "Infeasible"}
         THEN Max2(0, ff - off)
         ELSE ff + off

\* "Update the fixing fraction".
FixingUpdate(ff, off, improved, status) ==
    IF improved THEN ff
    ELSE IF status \in {"Optimal", "Infeasible"}
         THEN Max2(0, ff - off)
         ELSE Min2(ONE, ff + off)

\* Mutant: the offset shrinks without the floor offset_minimum.
OffsetUpdate_NoFloor(off, reduction, minimum) == Mul(ONE - reduction, off)

\* "Update the fixing offset value".
OffsetUpdate(off, reduction, minimum) ==
    Max2(minimum, Mul(ONE - reduction, off))

\* Mutant: the two branches of the size update are exchanged.
SubmipUpdate_Swapped(mn, mx, off, improved, status) ==
    IF improved THEN [min |-> mn, max |-> mx]
    ELSE IF status \in {"Optimal", "Infeasible"}
         THEN [min |-> mn, max |-> mx - Mul(mx - mn, off)]
         ELSE [min |-> mn + Mul(mx - mn, off), max |-> mx]

\* "Update the sub-MIP size (if necessary)".
SubmipUpdate(mn, mx, off, improved, status) ==
    IF improved THEN [min |-> mn, max |-> mx]
    ELSE IF status \in {"Optimal", "Infeasible"}
         THEN [min |-> mn + Mul(mx - mn, off), max |-> mx]
         ELSE [min |-> mn, max |-> mx - Mul(mx - mn, off)]

\* Mutant: every iteration from consider_all on is in consensus mode.
RecombinationMode_From(i, ca) == IF i >= ca THEN "consensus" ELSE "pairwise"

\* The mode of iteration i of the recombination loop: "if (i == consider_all)".
RecombinationMode(i, ca) == IF i = ca THEN "consensus" ELSE "pairwise"

\* Values random_() may return (std::mt19937, reduced by the code with %).
RandomDraws == 0..7

\* Mutant: the seed is redrawn below the pool size, not below the first
\* index drawn.
SeedIndex_RedrawAll(r1, r2, n) ==
    IF r1 % n # 0 THEN r2 % n ELSE 0

\* Mutant: the seed is the first index drawn, without the second draw.
SeedIndex_FirstDraw(r1, r2, n) == r1 % n

\* "Randomly select a seed solution": idx = random_() % pool_->size(), and
\* if idx != 0, idx = random_() % idx.
SeedIndex(r1, r2, n) ==
    LET idx == r1 % n
    IN IF idx # 0 THEN r2 % idx ELSE idx

\* The seed indices the mutation phase may select in a pool of n entries.
SeedChoices(n) == {SeedIndex(r1, r2, n) : r1, r2 \in RandomDraws}

\* Mutant: idx1 is drawn up to and including idx2.
PairIndices_Inclusive(r1, r2, n) ==
    LET idx2 == (r1 % (n - 1)) + 1
    IN <<r2 % (idx2 + 1), idx2>>

\* The pairwise mode: idx2 = (random_() % (pool_->size() - 1)) + 1 and
\* idx1 = random_() % idx2, as <<idx1, idx2>>.
PairIndices(r1, r2, n) ==
    LET idx2 == (r1 % (n - 1)) + 1
    IN <<r2 % idx2, idx2>>

\* The pairs <<idx1, idx2>> the pairwise mode may draw from a pool of n
\* entries; the recombination loop is entered with two entries at least.
PairChoices(n) ==
    IF n < 2 THEN {}
    ELSE {PairIndices(r1, r2, n) : r1, r2 \in RandomDraws}

\* The solution handed to addMIPStart, as the place it is taken from.
PoolStart(es, idx) == [from |-> "pool", index |-> idx, value |-> es[idx + 1].value]

IncumbentStart(inc) == [from |-> "incumbent", index |-> 0, value |-> inc]

\* One recombination iteration, as the indices of the entries the sub-MIP is
\* built from and its start_sol: all entries and the first one in consensus
\* mode, the pair drawn and its entry1 in pairwise mode.
RecombinationStarts(es, mode) ==
    IF mode = "consensus"
    THEN {[indices |-> [k \in 1..Len(es) |-> k - 1], start |-> PoolStart(es, 0)]}
    ELSE {[indices |-> pr, start |-> PoolStart(es, pr[1])] :
             pr \in PairChoices(Len(es))}

\* Pool sizes that let a phase start: "if (pool_->size() >= 1)" before the
\* mutation loop, "if (pool_->size() >= 2)" before the recombination loop,
\* "if (pool_->size() > 0)" in Maravilha::run.
MutationOpen(n) == n >= 1

\* Mutant: the recombination loop is entered with a single entry.
RecombinationOpen_One(n) == n >= 1

RecombinationOpen(n) == n >= 2

BiasedOpen(n) == n > 0

\* main(): the pool (sorted, of the problem's sense) after the first phase,
\* one heuristic with its parameters, the timer and the time limit.
HeurConfig ==
    /\ sense \in Senses
    /\ max_size \in HeurPoolSizes
    /\ sorted = TRUE
    /\ \E k \in 0..Len(PhaseOne(sense)) :
          \E p \in Replay(PhaseOne(sense), k, sense, max_size) :
             /\ entries = p.entries
             /\ next_age = p.next_age
             /\ call = p.call
    /\ IF heuristic = "rothberg"
       THEN /\ \E c \in RothbergConfigs :
                  /\ num_mutations = c.num_mutations
                  /\ num_recombinations = c.num_recombinations
                  /\ fixing_fraction = c.fixing_fraction
                  /\ offset = c.offset
                  /\ offset_reduction = c.offset_reduction
                  /\ offset_minimum = c.offset_minimum
            /\ iterations = 0 /\ submip_min = 0 /\ submip_max = 0
       ELSE /\ \E c \in MaravilhaConfigs :
                  /\ iterations = c.iterations
                  /\ submip_min = c.submip_min
                  /\ submip_max = c.submip_max
                  /\ offset = c.offset
            /\ num_mutations = 0 /\ num_recombinations = 0
            /\ fixing_fraction = 0
            /\ offset_reduction = 0 /\ offset_minimum = 0
    /\ submip_nodes_unsuccessful = LONG_MAX
    /\ time_limit \in TimeLimits
    /\ timer = 0
    /\ pc = "idle" /\ runs = 0
    /\ incumbent_objective = 0 /\ start_objective = 0 /\ reported = <<>>
    /\ loop_i = 0 /\ consider_all = 0 /\ current_iteration = 0
    /\ submip_status = "Unknown" /\ submip_has_improved = FALSE
    /\ mip_start = <<>> /\ modes = <<>> /\ chain_base = <<>>
    /\ selected = <<>> /\ random_draws = <<>> /\ NoBuild
    /\ nodes_explored = 0
    /\ NoAbortCallback

\* main() with --heuristic rothberg or maravilha and the default
\* --heuristic-frequency 1.
HeurInit ==
    /\ heuristic \in {"rothberg", "maravilha"}
    /\ frequency = 1
    /\ HeurConfig

\* Rothberg::run, entry: the incumbent objective is read; the mutation block
\* is entered with a pool of at least one entry, otherwise both blocks are
\* skipped.
Rothberg_begin(inc) ==
    /\ heuristic = "rothberg" /\ pc = "idle" /\ runs < MaxRuns
    /\ incumbent_objective' = inc
    /\ start_objective' = inc
    /\ reported' = <<>>
    /\ loop_i' = 0
    /\ pc' = IF MutationOpen(Len(entries)) THEN "mutation" ELSE "report"
    /\ modes' = <<>>
    /\ chain_base' = IF MutationOpen(Len(entries)) THEN <<fixing_fraction>> ELSE <<>>
    /\ UNCHANGED <<pool_config, pool_state, heuristic_config, adaptive_state,
                   runs, timer, consider_all, current_iteration,
                   submip_status, submip_has_improved, mip_start, selected,
                   frequency, abort_config, abort_state,
                   construction_state>>

\* One iteration of the mutation loop: a sub-MIP is solved (no MIP start is
\* added), its solution harvested and the fixing fraction adapted.
Rothberg_mutate(out, d) ==
    /\ heuristic = "rothberg" /\ pc = "mutation"
    /\ loop_i < num_mutations /\ ~TimeUp
    /\ next_age > 0
    /\ \E idx \in SeedChoices(Len(entries)) : selected' = <<idx>>
    /\ mip_start' = <<>>
    /\ Harvest(out)
    /\ submip_status' = out.status
    /\ submip_has_improved' = HasImproved(out)
    /\ fixing_fraction' =
           FixingUpdate(fixing_fraction, offset, HasImproved(out), out.status)
    /\ chain_base' = IF out.status = "Infeasible" THEN chain_base ELSE <<>>
    /\ loop_i' = loop_i + 1
    /\ timer' = timer + d
    /\ UNCHANGED <<pool_config, heuristic_config, offset, submip_min, submip_max,
                   pc, runs, start_objective, reported, consider_all,
                   current_iteration, modes, callback_state, abort_config,
                   abort_state,
                   construction_state>>

\* The mutation loop ends (count reached or time up): the offset shrinks,
\* and with at least two entries in the pool consider_all is drawn and the
\* recombination loop entered.  random_() % 0 is undefined: the division
\* traps, or leaves some value.
Rothberg_end_mutation ==
    /\ heuristic = "rothberg" /\ pc = "mutation"
    /\ loop_i >= num_mutations \/ TimeUp
    /\ offset' = OffsetUpdate(offset, offset_reduction, offset_minimum)
    /\ loop_i' = 0
    /\ chain_base' = <<>>
    /\ IF RecombinationOpen(Len(entries))
       THEN IF num_recombinations = 0
            THEN \/ pc' = "fault" /\ consider_all' = consider_all
                 \/ pc' = "recombination" /\ consider_all' \in RandomValues
            ELSE /\ pc' = "recombination"
                 /\ consider_all' \in 0..(num_recombinations - 1)
       ELSE pc' = "report" /\ consider_all' = consider_all
    /\ UNCHANGED <<pool_config, pool_state, heuristic_config, fixing_fraction,
                   submip_min, submip_max, runs, timer, incumbent_objective,
                   start_objective, reported, current_iteration,
                   submip_status, submip_has_improved, mip_start, modes,
                   selected,
                   callback_state, abort_config, abort_state,
                   construction_state>>

\* Mutant: the recombination loop adapts the fixing fraction as the mutation
\* loop does.
Rothberg_recombine_Adapting(out, d) ==
    /\ heuristic = "rothberg" /\ pc = "recombination"
    /\ loop_i < num_recombinations /\ ~TimeUp
    /\ next_age > 0
    /\ LET mode == RecombinationMode(loop_i, consider_all)
       IN /\ modes' = Append(modes, mode)
          /\ \E sel \in RecombinationStarts(entries, mode) :
                /\ selected' = sel.indices
                /\ mip_start' = <<sel.start>>
    /\ Harvest(out)
    /\ submip_status' = out.status
    /\ submip_has_improved' = HasImproved(out)
    /\ fixing_fraction' =
           FixingUpdate(fixing_fraction, offset, HasImproved(out), out.status)
    /\ loop_i' = loop_i + 1
    /\ timer' = timer + d
    /\ UNCHANGED <<pool_config, heuristic_config, offset, submip_min, submip_max,
                   pc, runs, start_objective, reported, consider_all,
                   current_iteration, chain_base, callback_state, abort_config,
                   abort_state, construction_state>>

\* One iteration of the recombination loop: the sub-MIP is built in consensus
\* or pairwise mode, started from start_sol and solved, and its solution is
\* harvested.
Rothberg_recombine(out, d) ==
    /\ heuristic = "rothberg" /\ pc = "recombination"
    /\ loop_i < num_recombinations /\ ~TimeUp
    /\ next_age > 0
    /\ LET mode == RecombinationMode(loop_i, consider_all)
       IN /\ modes' = Append(modes, mode)
          /\ \E sel \in RecombinationStarts(entries, mode) :
                /\ selected' = sel.indices
                /\ mip_start' = <<sel.start>>
    /\ Harvest(out)
    /\ submip_status' = out.status
    /\ submip_has_improved' = HasImproved(out)
    /\ loop_i' = loop_i + 1
    /\ timer' = timer + d
    /\ UNCHANGED <<pool_config, heuristic_config, adaptive_state, pc, runs,
                   start_objective, reported, consider_all, current_iteration,
                   chain_base, callback_state, abort_config, abort_state,
                   construction_state>>

\* callback->setSolution(problem_->variables, incumbent_solution): the end
\* of Rothberg::run.
Rothberg_report ==
    /\ heuristic = "rothberg"
    /\ \/ pc = "report"
       \/ pc = "recombination" /\ (loop_i >= num_recombinations \/ TimeUp)
    /\ reported' = <<incumbent_objective>>
    /\ pc' = "idle"
    /\ runs' = runs + 1
    /\ submip_status' = "Unknown" /\ submip_has_improved' = FALSE
    /\ mip_start' = <<>> /\ selected' = <<>>
    /\ UNCHANGED <<pool_config, pool_state, heuristic_config, adaptive_state,
                   timer, incumbent_objective, start_objective, loop_i,
                   consider_all, current_iteration, modes, chain_base,
                   callback_state, abort_config, abort_state,
                   construction_state>>

\* Maravilha::run, entry: with an empty pool run returns at once, otherwise
\* the incumbent objective is read and the loop entered.
Maravilha_begin(inc) ==
    /\ heuristic = "maravilha" /\ pc = "idle" /\ runs < MaxRuns
    /\ reported' = <<>>
    /\ IF BiasedOpen(Len(entries))
       THEN /\ incumbent_objective' = inc
            /\ start_objective' = inc
            /\ current_iteration' = 0
            /\ pc' = "iterate"
            /\ runs' = runs
       ELSE /\ runs' = runs + 1
            /\ UNCHANGED <<incumbent_objective, start_objective,
                           current_iteration, pc>>
    /\ UNCHANGED <<pool_config, pool_state, heuristic_config, adaptive_state,
                   timer, loop_i, consider_all, submip_state, frequency,
                   abort_config, abort_state,
                   construction_state>>

\* One iteration of the loop of Maravilha::run: a sub-MIP is started from
\* the incumbent and solved, its solution harvested and the size window
\* adapted.
Maravilha_iterate(out, d) ==
    /\ heuristic = "maravilha" /\ pc = "iterate"
    /\ current_iteration < iterations /\ ~TimeUp
    /\ next_age > 0
    /\ current_iteration' = current_iteration + 1
    /\ \E idx_pool \in {r % Len(entries) : r \in RandomDraws} :
          selected' = <<idx_pool>>
    /\ mip_start' = <<IncumbentStart(incumbent_objective)>>
    /\ Harvest(out)
    /\ submip_status' = out.status
    /\ submip_has_improved' = HasImproved(out)
    /\ LET w == SubmipUpdate(submip_min, submip_max, offset,
                             HasImproved(out), out.status)
       IN submip_min' = w.min /\ submip_max' = w.max
    /\ timer' = timer + d
    /\ UNCHANGED <<pool_config, heuristic_config, fixing_fraction, offset,
                   pc, runs, start_objective, reported, loop_i, consider_all,
                   modes, chain_base, callback_state, abort_config, abort_state,
                   construction_state>>

\* callback->setSolution(problem_->variables, incumbent_solution): the end
\* of Maravilha::run with a non-empty pool.
Maravilha_report ==
    /\ heuristic = "maravilha" /\ pc = "iterate"
    /\ current_iteration >= iterations \/ TimeUp
    /\ reported' = <<incumbent_objective>>
    /\ pc' = "idle"
    /\ runs' = runs + 1
    /\ submip_status' = "Unknown" /\ submip_has_improved' = FALSE
    /\ mip_start' = <<>> /\ selected' = <<>>
    /\ UNCHANGED <<pool_config, pool_state, heuristic_config, adaptive_state,
                   timer, incumbent_objective, start_objective, loop_i,
                   consider_all, current_iteration, modes, chain_base,
                   callback_state, abort_config, abort_state,
                   construction_state>>

\* Mutant: the heuristic is run whenever the frequency is positive.
RunDue_EveryNode(freq, h, n) == freq > 0 /\ h # "none"

\* The test of HeuristicCallback::main; heuristic_ is null when main()
\* created no heuristic.
RunDue(freq, h, n) == freq > 0 /\ h # "none" /\ n % freq = 0

\* HeuristicCallback::main at one node of the search: the heuristic is run
\* when it is due, and the search goes on to its next node.
HeuristicCallback_main(inc) ==
    /\ pc = "idle" /\ nodes_explored < MaxNodes
    /\ nodes_explored' = nodes_explored + 1
    /\ frequency' = frequency
    /\ IF RunDue(frequency, heuristic, nodes_explored)
       THEN Rothberg_begin(inc) \/ Maravilha_begin(inc)
       ELSE UNCHANGED <<pool_config, pool_state, heuristic_config, run_state,
                        adaptive_state, submip_state, abort_config, abort_state,
                   construction_state>>

HeurNext ==
    \/ \E inc \in NextIncumbents : HeuristicCallback_main(inc)
    \/ \E out \in SubmipOutcomes, d \in SolveTimes : Rothberg_mutate(out, d)
    \/ Rothberg_end_mutation
    \/ \E out \in SubmipOutcomes, d \in SolveTimes : Rothberg_recombine(out, d)
    \/ Rothberg_report
    \/ \E out \in SubmipOutcomes, d \in SolveTimes : Maravilha_iterate(out, d)
    \/ Maravilha_report

HeurSpec == HeurInit /\ [][HeurNext]_vars

\* The same with progress: run is sequential code on the only thread, each
\* of its steps is taken once it can be, a sub-MIP solve returning.
HeurFairSpec == HeurSpec /\ WF_vars(HeurNext)

\* main() with any --heuristic and --heuristic-frequency, on a minimization
\* problem.
CallbackInit ==
    /\ heuristic \in {"none", "rothberg", "maravilha"}
    /\ frequency \in Frequencies
    /\ HeurConfig
    /\ sense = "Minimize"

CallbackSpec == CallbackInit /\ [][HeurNext]_vars

\* ------------------------------------------------- selection of pool entries

\* Largest pool the selections are followed on.
MaxPool == 4

\* A sorted Minimize pool of n entries, objectives two tolerances apart.
SelectionPool(n) ==
    [k \in 1..n |->
        NewEntry(<<5 * ((k - 1) \div 2), 5 * ((k - 1) % 2)>>, 6 + 4 * k,
                 MaxInsertions + k)]

\* Rothberg::run at a selection: a pool of 1 to MaxPool entries.
SelectionInit ==
    /\ heuristic = "rothberg"
    /\ sense = "Minimize" /\ sorted = TRUE
    /\ max_size = MaxPool
    /\ \E n \in 1..MaxPool : entries = SelectionPool(n)
    /\ next_age = MaxInsertions
    /\ call = NoCall
    /\ pc = "idle" /\ runs = 0 /\ timer = 0 /\ time_limit = 0
    /\ incumbent_objective = 0 /\ start_objective = 0 /\ reported = <<>>
    /\ num_mutations = 0 /\ num_recombinations = 0
    /\ fixing_fraction = 0 /\ offset = 0
    /\ offset_reduction = 0 /\ offset_minimum = 0
    /\ loop_i = 0 /\ consider_all = 0
    /\ iterations = 0 /\ submip_min = 0 /\ submip_max = 0
    /\ submip_nodes_unsuccessful = LONG_MAX
    /\ current_iteration = 0
    /\ submip_status = "Unknown" /\ submip_has_improved = FALSE
    /\ mip_start = <<>> /\ modes = <<>> /\ chain_base = <<>>
    /\ selected = <<>> /\ random_draws = <<>> /\ NoBuild
    /\ frequency = 0 /\ nodes_explored = 0
    /\ NoAbortCallback

\* The seed selection of one mutation iteration, random_() returning r1 and
\* then (if called again) r2.
SelectSeed(r1, r2) ==
    /\ MutationOpen(Len(entries))
    /\ random_draws' = <<r1, r2>>
    /\ selected' = <<SeedIndex(r1, r2, Len(entries))>>
    /\ mip_start' = <<>>
    /\ UNCHANGED <<pool_config, pool_state, heuristic_config, run_state,
                   adaptive_state, submip_status, submip_has_improved, modes,
                   chain_base, callback_state, abort_config, abort_state,
                   build_state>>

\* The selection of one pairwise recombination iteration, random_()
\* returning r1 and then r2, and its start_sol.
SelectPair(r1, r2) ==
    /\ RecombinationOpen(Len(entries))
    /\ random_draws' = <<r1, r2>>
    /\ selected' = PairIndices(r1, r2, Len(entries))
    /\ mip_start' = <<PoolStart(entries, PairIndices(r1, r2, Len(entries))[1])>>
    /\ UNCHANGED <<pool_config, pool_state, heuristic_config, run_state,
                   adaptive_state, submip_status, submip_has_improved, modes,
                   chain_base, callback_state, abort_config, abort_state,
                   build_state>>

SelectionNext ==
    \/ \E r1, r2 \in RandomDraws : SelectSeed(r1, r2)
    \/ \E r1, r2 \in RandomDraws : SelectPair(r1, r2)

SelectionSpec == SelectionInit /\ [][SelectionNext]_vars

\* -------------------------------------- construction of Maravilha's sub-MIP

\* Number of 0/1 variables of the problem (binary_variables_.size()).
NumBinaries == 4

\* The literal 1e-5 of the gap denominators, in units of 0.5e-5.
GAP_EPSILON == 2

\* Doubles that may be NaN: <<v>> is the number v, <<>> is NaN.  Every
\* comparison with NaN is false, every sum or product with NaN is NaN.
NaN == <<>>

Num(v) == <<v>>

Geq(a, b) == a # NaN /\ b # NaN /\ a[1] >= b[1]

Add(a, b) == IF a = NaN \/ b = NaN THEN NaN ELSE Num(a[1] + b[1])

Sub(a, b) == IF a = NaN \/ b = NaN THEN NaN ELSE Num(a[1] - b[1])

\* The product of a fraction in 64ths and a double.
Scale(f, a) == IF a = NaN THEN NaN ELSE Num(Mul(f, a[1]))

\* std::max(0.0, std::min(1.0, num / den)) for den > 0, in 64ths.
Clip(num, den) ==
    IF num <= 0 THEN 0
    ELSE IF num >= den THEN ONE
    ELSE (num * ONE) \div den

\* feas_bias: one minus the clipped gap of the entry to the incumbent.
FeasBias(entry_value, inc) ==
    ONE - Clip(entry_value - inc, GAP_EPSILON + Abs(inc))

\* rel_bias: one minus the clipped gap of the incumbent to the relaxation.
RelBias(inc, relaxed) ==
    ONE - Clip(inc - relaxed, GAP_EPSILON + Abs(relaxed))

\* "Define the bias parameter (by GAP)": feas_bias, rel_bias and
\* bias = 1 - feas_bias / (feas_bias + rel_bias), where 0.0 / 0.0 is NaN.
Bias(entry_value, inc, relaxed) ==
    LET feas_bias == FeasBias(entry_value, inc)
        rel_bias == RelBias(inc, relaxed)
    IN IF feas_bias + rel_bias = 0
       THEN NaN
       ELSE Num(ONE - ((feas_bias * ONE) \div (feas_bias + rel_bias)))

\* "Compute the biased differences": bias * |incumbent - entry| +
\* (1 - bias) * |incumbent - relaxed| of one variable.
Difference(b, x, e, r) ==
    IF b = NaN THEN NaN
    ELSE Num(Mul(b[1], Abs(x - e)) + Mul(ONE - b[1], Abs(x - r)))

\* value_to_fix = (incumbent_solution[idx] > 0.5 ? 1.0 : 0.0).
ValueToFix(x) == IF 2 * x > ONE THEN ONE ELSE 0

Fixed(v) == [lb |-> v, ub |-> v]

\* The bounds of a 0/1 variable in the problem.
ProblemBounds == [lb |-> 0, ub |-> ONE]

RECURSIVE SumTo(_, _, _)
\* acc after the variables of av up to index k were added, in the order of
\* the std::set.
SumTo(av, diffs, k) ==
    IF k = 0 THEN Num(0)
    ELSE IF k \in av THEN Add(SumTo(av, diffs, k - 1), diffs[k])
         ELSE SumTo(av, diffs, k - 1)

\* "Define the size of the sub-MIP":
\* (std::size_t) std::max(1.0, n * ((submip_min_ + submip_max_) / 2.0)).
SubmipSize(n, mn, mx) == Max2(1, (n * (mn + mx)) \div (2 * ONE))

\* The variable the inner loop stops at: the first one of the set at which
\* acc >= rand_value; none if the test is never true.
Drawn(av, diffs, rand_value) ==
    {idx \in av :
        /\ Geq(SumTo(av, diffs, idx), rand_value)
        /\ \A j \in av : j < idx => ~Geq(SumTo(av, diffs, j), rand_value)}

\* The incumbent of a minimization over the 0/1 variables, in 64ths: it
\* alternates 0 and 1 and has the objective 10.
BuildIncumbent == [k \in 1..NumBinaries |-> IF k % 2 = 1 THEN 0 ELSE ONE]

\* The pool entry selected: the incumbent itself, or its complement with an
\* objective worse by a part of the incumbent's or by more than the whole.
BuildEntries ==
    {[solution |-> BuildIncumbent, value |-> 10],
     [solution |-> [k \in 1..NumBinaries |-> ONE - BuildIncumbent[k]], value |-> 12],
     [solution |-> [k \in 1..NumBinaries |-> ONE - BuildIncumbent[k]], value |-> 30]}

\* The relaxation at the node: the incumbent itself, or one half everywhere
\* with an objective below the incumbent's by a part of its own or by more
\* than the whole.
BuildRelaxations ==
    {[solution |-> BuildIncumbent, value |-> 10],
     [solution |-> [k \in 1..NumBinaries |-> ONE \div 2], value |-> 9],
     [solution |-> [k \in 1..NumBinaries |-> ONE \div 2], value |-> 4]}

\* random_() / (double) random_.max(), in 64ths.
RandomFractions == {0, 32, 64}

\* Maravilha::run at the top of an iteration: a pool of one entry, the
\* incumbent and the relaxed solution of the node read.
BuildInit ==
    /\ heuristic = "maravilha"
    /\ sense = "Minimize" /\ sorted = TRUE /\ max_size \in HeurPoolSizes
    /\ \E e \in BuildEntries :
          entries = <<NewEntry(e.solution, e.value, MaxInsertions + 1)>>
    /\ next_age = MaxInsertions
    /\ call = NoCall
    /\ \E c \in MaravilhaConfigs :
          /\ iterations = c.iterations
          /\ submip_min = c.submip_min
          /\ submip_max = c.submip_max
          /\ offset = c.offset
    /\ num_mutations = 0 /\ num_recombinations = 0 /\ fixing_fraction = 0
    /\ offset_reduction = 0 /\ offset_minimum = 0
    /\ submip_nodes_unsuccessful = LONG_MAX
    /\ time_limit \in TimeLimits /\ timer = 0
    /\ pc = "iterate" /\ runs = 0
    /\ incumbent_objective = 10 /\ start_objective = 10 /\ reported = <<>>
    /\ loop_i = 0 /\ consider_all = 0 /\ current_iteration = 0
    /\ submip_status = "Unknown" /\ submip_has_improved = FALSE
    /\ mip_start = <<>> /\ modes = <<>> /\ chain_base = <<>>
    /\ selected = <<>> /\ random_draws = <<>>
    /\ frequency = 1 /\ nodes_explored = 1
    /\ NoAbortCallback
    /\ incumbent_solution = BuildIncumbent
    /\ \E x \in BuildRelaxations :
          relaxed_solution = x.solution /\ relaxed_objective = x.value
    /\ bias = NaN /\ differences = <<>> /\ sum_differences = NaN
    /\ variables_available = {} /\ submip_size = 0 /\ count = 0
    /\ bounds = <<>> /\ freed = <<>>

\* One iteration of Maravilha::run up to the build loop: an entry of the
\* pool is selected, the bias and the differences are computed, every 0/1
\* variable is fixed to the rounded incumbent, and the size is defined.
Maravilha_prepare(r) ==
    /\ heuristic = "maravilha" /\ pc = "iterate"
    /\ current_iteration < iterations /\ ~TimeUp
    /\ current_iteration' = current_iteration + 1
    /\ LET idx_pool == r % Len(entries)
           entry == entries[idx_pool + 1]
           b == Bias(entry.value, incumbent_objective, relaxed_objective)
           diffs == [idx \in 1..Len(incumbent_solution) |->
                        Difference(b, incumbent_solution[idx],
                                   entry.solution[idx], relaxed_solution[idx])]
       IN /\ selected' = <<idx_pool>>
          /\ bias' = b
          /\ differences' = diffs
          /\ sum_differences' =
                 SumTo(1..Len(incumbent_solution), diffs, Len(incumbent_solution))
    /\ bounds' = [idx \in 1..Len(incumbent_solution) |->
                     Fixed(ValueToFix(incumbent_solution[idx]))]
    /\ variables_available' = 1..Len(incumbent_solution)
    /\ submip_size' = SubmipSize(Len(incumbent_solution), submip_min, submip_max)
    /\ count' = 0
    /\ freed' = <<>>
    /\ pc' = "build"
    /\ UNCHANGED <<pool_config, pool_state, heuristic_config, adaptive_state,
                   runs, timer, incumbent_objective, start_objective, reported,
                   loop_i, consider_all, submip_status, submip_has_improved,
                   mip_start, modes, chain_base, callback_state, abort_config,
                   abort_state, random_draws, incumbent_solution,
                   relaxed_solution, relaxed_objective>>

\* One iteration of the loop "Build the sub-MIP", random_() / max being r:
\* the variable the inner loop stops at, if any, is freed and removed from
\* the available ones.
Maravilha_free(r) ==
    /\ heuristic = "maravilha" /\ pc = "build"
    /\ count < submip_size
    /\ count' = count + 1
    /\ LET rand_value == Scale(r, sum_differences)
           drawn == Drawn(variables_available, differences, rand_value)
       IN IF drawn = {}
          THEN UNCHANGED <<bounds, sum_differences, variables_available, freed>>
          ELSE \E idx \in drawn :
                  /\ bounds' = [bounds EXCEPT ![idx] = ProblemBounds]
                  /\ sum_differences' = Sub(sum_differences, differences[idx])
                  /\ variables_available' = variables_available \ {idx}
                  /\ freed' = Append(freed, idx)
    /\ UNCHANGED <<pool_config, pool_state, heuristic_config, run_state,
                   adaptive_state, submip_state, callback_state, abort_config,
                   abort_state, random_draws, incumbent_solution,
                   relaxed_solution, relaxed_objective, bias, differences,
                   submip_size>>

\* The build loop is over: submip_.cplex.extract(submip_.model).
Maravilha_extract ==
    /\ heuristic = "maravilha" /\ pc = "build"
    /\ count >= submip_size
    /\ pc' = "extract"
    /\ UNCHANGED <<pool_config, pool_state, heuristic_config, runs, timer,
                   incumbent_objective, start_objective, reported, loop_i,
                   consider_all, current_iteration, adaptive_state,
                   submip_state, callback_state, abort_config, abort_state,
                   construction_state>>

BuildNext ==
    \/ \E r \in RandomDraws : Maravilha_prepare(r)
    \/ \E r \in RandomFractions : Maravilha_free(r)
    \/ Maravilha_extract

BuildSpec == BuildInit /\ [][BuildNext]_vars

\* ------------------------------------------------------------ AbortCallback

\* std::numeric_limits<unsigned long long>::max(), the default of nodes_limit
\* and nodes_unsuccessful, in a word of 10 bits.
ULLONG_MAX == 1023

\* The literal 1e-5 of the improvement test, in units of 0.5e-5.
IMPROVEMENT == 2

\* Number of calls of AbortCallback::main followed.
MaxPolls == 4

\* Values of time_limit; a negative one asks for no time criterion.
AbortTimeLimits == {2, -1}

\* Values written for nodes_limit; a negative one asks for no node criterion.
NodesLimits == {3, -1, ULLONG_MAX}

\* Conversion of an integer argument to the unsigned long long parameter.
ToUnsigned(v) == v % (ULLONG_MAX + 1)

NodesUnsuccessful == {0, 1, ULLONG_MAX}

\* The incumbent objective of the solve when the callback is first polled.
FirstIncumbent(s) == IF s = "Minimize" THEN 12 ELSE 8

\* Incumbent objectives a later poll may read: the incumbent of a solve
\* never gets worse.
LaterIncumbents(s, obj) ==
    {v \in Values : IF s = "Minimize" THEN v <= obj ELSE v >= obj}

\* Mutant: the time limit must be passed, not only reached.
TimeLimitReached_Passed(set, elapsed, limit) == set /\ elapsed > limit

\* "timer_ != nullptr" and "count / 1000.0 >= time_limit_".
TimeLimitReached(set, elapsed, limit) == set /\ elapsed >= limit

\* "getNnodes64() >= nodes_limit_".
NodesLimitReached(n, limit) == n >= limit

\* "obj_last_incumbent_ - obj_current_incumbent > 1e-5".
IncumbentImproved(last, current) == last - current > IMPROVEMENT

\* "nnodes - nodes_last_incumbent_ > nodes_unsuccessful_".
Stagnated(n, last, limit) == n - last > limit

\* AbortCallback::AbortCallback for the solve of a problem of either sense;
\* obj_last_incumbent_ and nodes_last_incumbent_ are not read before the
\* first poll sets them.
AbortInit ==
    /\ sense \in Senses
    /\ max_size = 0 /\ sorted = FALSE /\ entries = <<>> /\ next_age = 0
    /\ call = NoCall
    /\ NoRun
    /\ timer = 0
    /\ time_limit \in AbortTimeLimits
    /\ timer_set \in BOOLEAN
    /\ nodes_limit_arg \in NodesLimits
    /\ nodes_limit = ToUnsigned(nodes_limit_arg)
    /\ nodes_unsuccessful \in NodesUnsuccessful
    /\ initialized = FALSE /\ aborted = FALSE
    /\ obj_last_incumbent = 0 /\ nodes_last_incumbent = 0
    /\ polls = 0 /\ nnodes = 0
    /\ obj_current_incumbent = FirstIncumbent(sense)
    /\ abort_called = FALSE

\* Mutant: abort() without aborted_ = true.
Abort_NotRecorded ==
    /\ abort_called' = TRUE
    /\ UNCHANGED <<initialized, aborted, obj_last_incumbent, nodes_last_incumbent>>

\* "aborted_ = true; abort(); return;"
Abort ==
    /\ aborted' = TRUE
    /\ abort_called' = TRUE
    /\ UNCHANGED <<initialized, obj_last_incumbent, nodes_last_incumbent>>

\* One call of AbortCallback::main, when the timer shows elapsed, n nodes
\* are explored and the incumbent objective is obj.
AbortCallback_main(elapsed, n, obj) ==
    /\ polls < MaxPolls
    /\ polls' = polls + 1
    /\ timer' = elapsed
    /\ nnodes' = n
    /\ obj_current_incumbent' = obj
    /\ IF aborted
       THEN /\ abort_called' = FALSE
            /\ UNCHANGED <<initialized, aborted, obj_last_incumbent,
                           nodes_last_incumbent>>
       ELSE IF TimeLimitReached(timer_set, elapsed, time_limit)
       THEN Abort
       ELSE IF NodesLimitReached(n, nodes_limit)
       THEN Abort
       ELSE IF ~initialized
       THEN /\ initialized' = TRUE
            /\ obj_last_incumbent' = obj
            /\ nodes_last_incumbent' = n
            /\ abort_called' = FALSE
            /\ UNCHANGED aborted
       ELSE IF IncumbentImproved(obj_last_incumbent, obj)
       THEN /\ obj_last_incumbent' = obj
            /\ nodes_last_incumbent' = n
            /\ abort_called' = FALSE
            /\ UNCHANGED <<initialized, aborted>>
       ELSE IF Stagnated(n, nodes_last_incumbent, nodes_unsuccessful)
       THEN Abort
       ELSE /\ abort_called' = FALSE
            /\ UNCHANGED <<initialized, aborted, obj_last_incumbent,
                           nodes_last_incumbent>>
    /\ UNCHANGED <<pool_config, pool_state, heuristic_config, adaptive_state,
                   submip_state, callback_state, abort_config,
                   construction_state>>
    /\ UNCHANGED <<pc, runs, incumbent_objective, start_objective, reported,
                   loop_i, consider_all, current_iteration>>

\* The solve polls its callback: time and node count never decrease, the
\* incumbent never gets worse.
AbortNext ==
    \E elapsed \in {timer, timer + 1}, n \in {nnodes, nnodes + 1},
       obj \in LaterIncumbents(sense, obj_current_incumbent) :
          AbortCallback_main(elapsed, n, obj)

AbortSpec == AbortInit /\ [][AbortNext]_vars

\* ----------------------------------------------- the controller of a sub-MIP

\* Number of sub-MIP solves of a run followed with their controller.
MaxSolves == 2

\* Values of --submip-nodes-unsuccessful, a long: the default when it is not
\* set, small ones, and a negative one.
SubmipNodesUnsuccessful == {0, 1, -1, LONG_MAX}

\* Heuristic::run with a sub-MIP extracted, before its first solve: no
\* AbortCallback was created yet.
SubmipInit ==
    /\ heuristic \in {"rothberg", "maravilha"}
    /\ sense \in Senses
    /\ max_size = 0 /\ sorted = FALSE /\ entries = <<>> /\ next_age = 0
    /\ call = NoCall
    /\ pc = "extract" /\ runs = 0
    /\ incumbent_objective = 0 /\ start_objective = 0 /\ reported = <<>>
    /\ num_mutations = 0 /\ num_recombinations = 0
    /\ fixing_fraction = 0 /\ offset = 0
    /\ offset_reduction = 0 /\ offset_minimum = 0
    /\ loop_i = 0 /\ consider_all = 0
    /\ iterations = 0 /\ submip_min = 0 /\ submip_max = 0
    /\ submip_nodes_unsuccessful \in SubmipNodesUnsuccessful
    /\ current_iteration = 0
    /\ submip_status = "Unknown" /\ submip_has_improved = FALSE
    /\ mip_start = <<>> /\ modes = <<>> /\ chain_base = <<>>
    /\ selected = <<>> /\ random_draws = <<>> /\ NoBuild
    /\ frequency = 1 /\ nodes_explored = 1
    /\ timer = 0 /\ time_limit = 2
    /\ NoAbortCallback

\* Mutant: the callback installed for the first solve stays in use.
create_instance_Once ==
    /\ heuristic \in {"rothberg", "maravilha"} /\ pc = "extract"
    /\ loop_i < MaxSolves /\ ~TimeUp
    /\ pc' = "solve"
    /\ IF timer_set
       THEN /\ UNCHANGED <<abort_config, initialized, aborted,
                           obj_last_incumbent, nodes_last_incumbent>>
            /\ polls' = 0 /\ nnodes' = 0
            /\ obj_current_incumbent' = FirstIncumbent(sense)
            /\ abort_called' = FALSE
       ELSE /\ timer_set' = TRUE
            /\ nodes_limit_arg' = ULLONG_MAX
            /\ nodes_limit' = ToUnsigned(ULLONG_MAX)
            /\ nodes_unsuccessful' = ToUnsigned(submip_nodes_unsuccessful)
            /\ initialized' = FALSE /\ aborted' = FALSE
            /\ obj_last_incumbent' = 0 /\ nodes_last_incumbent' = 0
            /\ polls' = 0 /\ nnodes' = 0
            /\ obj_current_incumbent' = FirstIncumbent(sense)
            /\ abort_called' = FALSE
    /\ UNCHANGED <<pool_config, pool_state, heuristic_config, adaptive_state,
                   submip_state, callback_state, construction_state>>
    /\ UNCHANGED <<runs, timer, incumbent_objective, start_objective, reported,
                   loop_i, consider_all, current_iteration>>

\* "Set sub-MIP abort callback", after the stop criterion of the loop:
\* submip_.cplex.use(AbortCallback::create_instance(submip_.env, timer,
\* time_limit, ULLONG_MAX, submip_nodes_unsuccessful_)) replaces the callback
\* in use by a new object, built by AbortCallback::AbortCallback; the new
\* solve starts at node 0.  obj_last_incumbent_ and nodes_last_incumbent_
\* are not read before the first poll sets them.
create_instance ==
    /\ heuristic \in {"rothberg", "maravilha"} /\ pc = "extract"
    /\ loop_i < MaxSolves /\ ~TimeUp
    /\ pc' = "solve"
    /\ timer_set' = TRUE
    /\ nodes_limit_arg' = ULLONG_MAX
    /\ nodes_limit' = ToUnsigned(ULLONG_MAX)
    /\ nodes_unsuccessful' = ToUnsigned(submip_nodes_unsuccessful)
    /\ initialized' = FALSE /\ aborted' = FALSE
    /\ obj_last_incumbent' = 0 /\ nodes_last_incumbent' = 0
    /\ polls' = 0 /\ nnodes' = 0
    /\ obj_current_incumbent' = FirstIncumbent(sense)
    /\ abort_called' = FALSE
    /\ UNCHANGED <<pool_config, pool_state, heuristic_config, adaptive_state,
                   submip_state, callback_state, construction_state>>
    /\ UNCHANGED <<runs, timer, incumbent_objective, start_objective, reported,
                   loop_i, consider_all, current_iteration>>

\* submip_.cplex.solve() polls the callback in use.
Submip_poll == pc = "solve" /\ AbortNext

\* submip_.cplex.solve() returns, aborted or not; the next sub-MIP is built
\* and extracted.
Submip_solved ==
    /\ pc = "solve"
    /\ pc' = "extract"
    /\ loop_i' = loop_i + 1
    /\ UNCHANGED <<pool_config, pool_state, heuristic_config, adaptive_state,
                   submip_state, callback_state, abort_config, abort_state,
                   construction_state>>
    /\ UNCHANGED <<runs, timer, incumbent_objective, start_objective, reported,
                   consider_all, current_iteration>>

SubmipNext ==
    \/ create_instance
    \/ Submip_poll
    \/ Submip_solved

SubmipSpec == SubmipInit /\ [][SubmipNext]_vars

\* ---------------------------------------------------- vocabulary of the claims

EntrySet(es) == {es[i] : i \in 1..Len(es)}

\* "a is not worse than b" and "a is strictly better than b", by sense.
NotWorse(s, a, b) == IF s = "Minimize" THEN a <= b ELSE a >= b

StrictlyBetter(s, a, b) == IF s = "Minimize" THEN a < b ELSE a > b

\* The worst objective held by a non-empty pool.
WorstValue(es, s) ==
    CHOOSE w \in {es[i].value : i \in 1..Len(es)} :
        \A i \in 1..Len(es) : NotWorse(s, es[i].value, w)

\* Two vectors within the tolerance of each other in every coordinate.
WithinTolerance(a, b) ==
    \A j \in 1..Len(a) : Abs(a[j] - b[j]) < SIMILARITY_THRESHOLD

\* The candidate is further than the tolerance from every entry in some
\* coordinate: the pool does not take it for a duplicate.
NotSimilarToAny(es, solution) ==
    \A i \in 1..Len(es) :
        \E j \in 1..Len(solution) :
            Abs(solution[j] - es[i].solution[j]) > SIMILARITY_THRESHOLD

Full == Len(entries) = max_size /\ max_size >= 1

\* A state right after a successful replacement in a full pool.
AfterReplacement ==
    /\ Full
    /\ call.made /\ call.inserted
    /\ next_age < MaxInsertions - max_size

\* ------------------------------------------------------------------- claims

\* C1: in every reachable state of a pool (any capacity, either sense, sorted
\* or not) the number of entries is at most max_size.
C1_PoolBound == Len(entries) <= max_size

C1_Witness == AfterReplacement

\* C2: any two distinct entries of the pool differ by at least the tolerance
\* in at least one coordinate, also after a replacement in a full pool.
C2_NoDuplicates ==
    \A i, k \in 1..Len(entries) :
        i # k =>
            \E j \in 1..Len(entries[i].solution) :
                Abs(entries[i].solution[j] - entries[k].solution[j])
                    >= SIMILARITY_THRESHOLD

C2_Witness == AfterReplacement /\ Len(entries) >= 2

\* C3: in a sorted pool every entry is better than or tied with (within the
\* tolerance of) its successor, and of two adjacent entries that are tied the
\* earlier one has the smaller age.
C3_SortInvariant ==
    sorted =>
        \A i \in 1..(Len(entries) - 1) :
            LET tied == Abs(entries[i].value - entries[i + 1].value)
                            < SIMILARITY_THRESHOLD
            IN /\ tied \/ StrictlyBetter(sense, entries[i].value, entries[i + 1].value)
               /\ tied => entries[i].age < entries[i + 1].age

\* C4: once the pool is full, no add_entry call makes the worst objective it
\* holds worse.
C4_WorstNeverWorse ==
    [][Full => /\ Len(entries') = max_size
               /\ NotWorse(sense, WorstValue(entries', sense),
                                  WorstValue(entries, sense))]_vars

C4_Witness ==
    /\ AfterReplacement
    /\ \A i \in 1..Len(entries) : NotWorse(sense, entries[i].value, call.value)

\* C5: a call whose solution is within the tolerance of an entry returns
\* false and changes neither the entries nor the age counter, whatever the
\* objective passed.
C5_SimilarRejected ==
    [][(\E i \in 1..Len(entries) :
            WithinTolerance(call'.solution, entries[i].solution))
        => /\ ~call'.inserted
           /\ entries' = entries
           /\ next_age' = next_age]_vars

\* A similar, not identical, candidate strictly better than every entry was
\* rejected.
C5_Witness ==
    /\ call.made /\ ~call.inserted
    /\ Len(entries) >= 1
    /\ \E i \in 1..Len(entries) :
          /\ WithinTolerance(call.solution, entries[i].solution)
          /\ call.solution # entries[i].solution
    /\ \A i \in 1..Len(entries) :
          StrictlyBetter(sense, call.value, entries[i].value)

\* The pool of the scenario: capacity 3, sorted, minimizing, after the
\* insertions of objectives 10, 8, 12 in this order.
C6_ScenarioPool ==
    /\ sorted /\ sense = "Minimize" /\ max_size = 3
    /\ {<<entries[i].value, entries[i].age>> : i \in 1..Len(entries)} =
           {<<10, MaxInsertions>>, <<8, MaxInsertions - 1>>,
            <<12, MaxInsertions - 2>>}

C6_UnderCapacityStep ==
    (Len(entries) < max_size /\ NotSimilarToAny(entries, call'.solution))
    => /\ call'.inserted
       /\ Len(entries') = Len(entries) + 1
       /\ \E i \in 1..Len(entries') :
             /\ entries'[i].solution = call'.solution
             /\ entries'[i].value = call'.value

\* C6: under capacity a call with a solution the pool does not take for a
\* duplicate succeeds whatever its objective: it returns true, the size grows
\* by one and the pair is in the pool; and objectives 10, 8, 12 inserted into
\* a sorted minimizing pool of capacity 3 are held in the order 8, 10, 12.
C6_UnderCapacityInsert ==
    /\ [](C6_ScenarioPool => [i \in 1..Len(entries) |-> entries[i].value] = <<8, 10, 12>>)
    /\ [][C6_UnderCapacityStep]_vars

\* The scenario was played, and a candidate worse than every entry was
\* accepted under capacity.
C6_Witness ==
    /\ C6_ScenarioPool
    /\ call.made /\ call.inserted /\ call.value = 12

C7_FullStep ==
    (Full /\ NotSimilarToAny(entries, call'.solution))
    => /\ call'.inserted <=>
             StrictlyBetter(sense, call'.value, WorstValue(entries, sense))
       /\ call'.inserted =>
             \E k \in 1..Len(entries) :
                /\ entries[k].value = WorstValue(entries, sense)
                /\ EntrySet(entries') =
                       (EntrySet(entries) \ {entries[k]}) \cup
                           {NewEntry(call'.solution, call'.value, next_age)}
                /\ Len(entries') = Len(entries)
       /\ ~call'.inserted => entries' = entries /\ next_age' = next_age

\* C7: on a full pool a call with a solution the pool does not take for a
\* duplicate succeeds exactly when its objective is strictly better than the
\* worst objective held; a success replaces an entry holding that worst
\* objective, a failure returns false and changes nothing.
C7_FullReplacement == [][C7_FullStep]_vars

\* A replacement happened in a pool of at least two entries.
C7_Witness ==
    /\ AfterReplacement
    /\ Len(entries) >= 2
    /\ \E i \in 1..Len(entries) :
          entries[i] = NewEntry(call.solution, call.value, next_age + 1)

\* C8: the incumbent objective a run of either heuristic reports back is
\* never worse, in the pool's sense, than the one it read at its start.
C8_ReportedNotWorse ==
    reported # <<>> => NotWorse(sense, reported[1], start_objective)

\* C8: within a run, the running incumbent changes only to an objective
\* better than the one it replaces by more than the tolerance.
C8_RunningStep ==
    (pc # "idle" /\ pc' # "idle" /\ incumbent_objective' # incumbent_objective)
    => IF sense = "Minimize"
       THEN incumbent_objective' < incumbent_objective - THRESHOLD
       ELSE incumbent_objective' > incumbent_objective + THRESHOLD

\* C8: after any run of either heuristic the reported incumbent objective
\* is never worse than the one read at the start of the run, and within a
\* run the running incumbent changes only to a solution strictly better by
\* more than the tolerance.
C8_IncumbentNonRegression == []C8_ReportedNotWorse /\ [][C8_RunningStep]_vars

\* A run adopted a better solution and reported it.
C8_Witness ==
    /\ reported # <<>>
    /\ StrictlyBetter(sense, reported[1], start_objective)
    /\ call.made /\ call.value = reported[1]

\* C9: with the Rothberg heuristic, fixing_fraction lies within [0,1] in
\* every reachable state: at construction, after every mutation iteration
\* and across the run invocations.
C9_FixingFractionBounds ==
    heuristic = "rothberg" => 0 <= fixing_fraction /\ fixing_fraction <= ONE

\* C10: with the Maravilha heuristic, submip_min <= submip_max and both lie
\* within [0,1] in every reachable state, whatever the iterations, the
\* sub-MIP outcomes and the configured offset.
C10_SubmipWindow ==
    heuristic = "maravilha"
    => /\ submip_min <= submip_max
       /\ 0 <= submip_min /\ submip_min <= ONE
       /\ 0 <= submip_max /\ submip_max <= ONE

\* A step of the mutation loop that solved a sub-MIP.
MutationStep == pc = "mutation" /\ loop_i' = loop_i + 1

\* A step of the recombination loop that solved a sub-MIP.
RecombinationStep == pc = "recombination" /\ loop_i' = loop_i + 1

\* A step of the loop of Maravilha::run that solved a sub-MIP.
IterationStep == pc = "iterate" /\ current_iteration' = current_iteration + 1

\* A step that solved a sub-MIP.
SolveStep == MutationStep \/ RecombinationStep \/ IterationStep

FullyExplored(status) == status \in {"Optimal", "Infeasible"}

\* C11 as stated: after each mutation iteration the fixing fraction becomes
\* max(0, fixing_fraction - offset) if the iteration did not improve the
\* incumbent and the sub-MIP ended Optimal or Infeasible, and
\* min(1, fixing_fraction + offset) in every other case.
C11_TwoWayStep ==
    MutationStep
    => fixing_fraction' =
          IF ~submip_has_improved' /\ FullyExplored(submip_status')
          THEN Max2(0, fixing_fraction - offset)
          ELSE Min2(ONE, fixing_fraction + offset)

C11_AdaptInEveryCase == [][C11_TwoWayStep]_vars

C11_ThreeWayStep ==
    MutationStep
    => fixing_fraction' =
          IF submip_has_improved' THEN fixing_fraction
          ELSE IF FullyExplored(submip_status')
               THEN Max2(0, fixing_fraction - offset)
               ELSE Min2(ONE, fixing_fraction + offset)

\* C11, amended: after each mutation iteration that did not improve the
\* incumbent the fixing fraction becomes max(0, fixing_fraction - offset) if
\* the sub-MIP ended Optimal or Infeasible and min(1, fixing_fraction +
\* offset) otherwise; an improving iteration leaves it unchanged.
C11_AdaptUnlessImproved == [][C11_ThreeWayStep]_vars

\* A mutation that improved the incumbent left a fixing fraction strictly
\* inside (0,1) as it was, with a positive offset.
C11_Witness ==
    /\ heuristic = "rothberg" /\ pc = "mutation" /\ loop_i >= 1
    /\ submip_has_improved
    /\ fixing_fraction > 0 /\ fixing_fraction < ONE /\ offset > 0

\* The mutation loop is left.
MutationEnd == pc = "mutation" /\ pc' # "mutation"

C12_OffsetStep ==
    /\ (heuristic = "rothberg" /\ offset' # offset) => MutationEnd
    /\ MutationEnd
       => offset' = Max2(offset_minimum, Mul(offset, ONE - offset_reduction))

C12_InfeasibleChain ==
    (pc = "mutation" /\ chain_base # <<>>)
    => fixing_fraction = Max2(0, chain_base[1] - loop_i * offset)

\* C12: in a Rothberg run with a non-empty pool the offset is constant during
\* the mutation iterations and updated exactly once, when the mutation loop
\* ends, to max(offset_minimum, offset * (1 - offset_reduction)); so while
\* every sub-MIP ends Infeasible, after k mutation iterations the fixing
\* fraction is max(0, f0 - k * offset) with the offset of the start of the run.
C12_OffsetOncePerRun == []C12_InfeasibleChain /\ [][C12_OffsetStep]_vars

\* Two Infeasible mutations in a row brought the fixing fraction to the
\* floor, the first one short of it.
C12_Witness ==
    /\ pc = "mutation" /\ chain_base # <<>> /\ loop_i = 2
    /\ chain_base[1] - offset > 0 /\ fixing_fraction = 0

C15_SolveStep == SolveStep => timer < time_limit

C15_PassStep ==
    (timer < time_limit /\ timer' >= time_limit) => SolveStep

\* C15: within a run of either heuristic no sub-MIP solve is started once the
\* timer has reached time_limit, in the mutation, recombination and
\* Maravilha loops alike; the time limit is passed only during a solve that
\* was started before it.
C15_NoSolveAfterLimit == [][C15_SolveStep /\ C15_PassStep]_vars

\* The recombination loop was left early: the time limit was reached after
\* one of its two iterations.
C15_Witness ==
    /\ heuristic = "rothberg" /\ pc = "idle" /\ runs >= 1
    /\ timer >= time_limit
    /\ num_recombinations = 2 /\ Len(modes) = 1

\* C16: every mutation sub-MIP is handed to the solver with the running
\* incumbent as its MIP start.
C16_MutationWarmStart ==
    [][MutationStep => mip_start' = <<IncumbentStart(incumbent_objective)>>]_vars

C17_ExactlyOne ==
    (heuristic = "rothberg" /\ num_recombinations >= 1
        /\ Len(modes) = num_recombinations)
    => /\ Cardinality({k \in 1..Len(modes) : modes[k] = "consensus"}) = 1
       /\ \A k \in 1..Len(modes) : modes[k] \in {"consensus", "pairwise"}

C17_NoneWhenCutShort ==
    (heuristic = "rothberg" /\ pc \in {"recombination", "idle"}
        /\ Len(modes) <= consider_all)
    => \A k \in 1..Len(modes) : modes[k] = "pairwise"

\* C17: in a recombination phase that runs all its num_recombinations >= 1
\* iterations exactly one iteration is in consensus mode and every other one
\* in pairwise mode; if the phase is cut short before the chosen index, none
\* of its iterations is in consensus mode.
C17_OneConsensus == C17_ExactlyOne /\ C17_NoneWhenCutShort

\* A phase of two iterations ended, the second one in consensus mode.
C17_Witness ==
    /\ heuristic = "rothberg" /\ pc = "idle" /\ num_recombinations = 2
    /\ modes = <<"pairwise", "consensus">>

\* C18: with num_recombinations = 0 and at least two entries in the pool a
\* Rothberg run completes normally: no recombination sub-MIP is solved, no
\* iteration is in consensus mode and the incumbent is reported back.
C18_ZeroRecombinations ==
    (heuristic = "rothberg" /\ num_recombinations = 0)
    => pc # "fault" /\ modes = <<>>

C19_NoSolutionStep ==
    (SolveStep /\ submip_status' \in NotFoundStatuses)
    => /\ UNCHANGED <<pool_config, pool_state, heuristic_config>>
       /\ UNCHANGED <<incumbent_objective, start_objective, reported, runs, pc>>
       /\ ~submip_has_improved'
       /\ RecombinationStep => UNCHANGED adaptive_state
       /\ UNCHANGED offset

\* C19: a sub-MIP solve that returns no solution (Infeasible, limit reached
\* without a solution, or Error) is not a fault: the pool and the running
\* incumbent are unchanged by that iteration, the run stays in its loop, and
\* only the adaptive parameters (besides the loop counter and the clock)
\* change.
C19_NoSolutionNoFault == [][C19_NoSolutionStep]_vars

\* An iteration without a solution was followed by a further iteration.
C19_Witness ==
    /\ pc = "mutation" /\ loop_i = 2
    /\ chain_base # <<>> /\ submip_status = "Infeasible"
    /\ fixing_fraction < chain_base[1]

\* The heuristic callback was called at a node of the search.
CallbackStep == pc = "idle" /\ nodes_explored' # nodes_explored

\* The callback called run.
RunCalled == pc' # "idle" \/ runs' # runs

C20_CallbackStep ==
    CallbackStep
    => (RunCalled <=> /\ frequency > 0
                      /\ heuristic # "none"
                      /\ nodes_explored % frequency = 0)

C20_NeverWhenDisabled ==
    (frequency = 0 \/ heuristic = "none") => pc = "idle" /\ runs = 0

\* C20: at each invocation of the heuristic callback, run is called if and
\* only if frequency > 0, a heuristic is configured and the number of nodes
\* explored is a multiple of frequency; with frequency 0 or heuristic none,
\* run is never called.
C20_RunWhenDue == []C20_NeverWhenDisabled /\ [][C20_CallbackStep]_vars

\* With frequency 2 the callback ran the heuristic at node 0, skipped node 1
\* and started a second run at node 2.
C20_Witness ==
    /\ frequency = 2 /\ nodes_explored = 3
    /\ runs = 1 /\ pc # "idle"

\* AbortCallback::main was called.
PollStep == polls' = polls + 1

\* One of the two limits of the controller is reached at the poll.
LimitAtPoll ==
    \/ timer_set /\ timer' >= time_limit
    \/ nnodes' >= nodes_limit

\* The stagnation test of the controller fires at the poll.
StagnationAtPoll ==
    /\ initialized
    /\ ~(obj_last_incumbent - obj_current_incumbent' > IMPROVEMENT)
    /\ nnodes' - nodes_last_incumbent > nodes_unsuccessful

C13_PollStep ==
    /\ LimitAtPoll => abort_called'
    /\ (~LimitAtPoll /\ ~StagnationAtPoll) => ~abort_called'

C14_StagnationStep ==
    (PollStep /\ ~aborted /\ initialized /\ ~LimitAtPoll)
    => IF IF sense = "Minimize"
          THEN obj_last_incumbent - obj_current_incumbent' > IMPROVEMENT
          ELSE obj_current_incumbent' - obj_last_incumbent > IMPROVEMENT
       THEN /\ nodes_last_incumbent' = nnodes'
            /\ obj_last_incumbent' = obj_current_incumbent'
            /\ ~abort_called'
       ELSE abort_called' <=>
               nnodes' - nodes_last_incumbent > nodes_unsuccessful

\* C14: for Minimize and Maximize problems alike, the count of nodes since
\* the last improvement restarts at every poll at which the incumbent
\* objective is better, in the problem's sense and by more than the
\* tolerance, than the last one recorded, and the solve is aborted for
\* stagnation exactly at the first poll at which more than nodes_unsuccessful
\* nodes were explored since the last improvement.
C14_StagnationBothSenses == [][C14_StagnationStep]_vars

\* The abort of a poll is due to the elapsed time: neither the node limit
\* nor the stagnation test accounts for it.
AbortedByTime ==
    abort_called' /\ ~(nnodes' >= nodes_limit) /\ ~StagnationAtPoll

\* The abort of a poll is due to the node count: neither the time limit nor
\* the stagnation test accounts for it.
AbortedByNodes ==
    abort_called' /\ ~(timer_set /\ timer' >= time_limit) /\ ~StagnationAtPoll

C21_TimeStep == (PollStep /\ time_limit < 0) => ~AbortedByTime

C21_NodesStep == (PollStep /\ nodes_limit_arg < 0) => ~AbortedByNodes

\* The node half of C21 alone: a controller created with a negative
\* nodes_limit never aborts because of the node count.
C21_NegativeNodesIgnored == [][C21_NodesStep]_vars

\* C21: a controller created with a negative time_limit never aborts because
\* of the elapsed time, and one created with a negative nodes_limit never
\* aborts because of the node count.
C21_NegativeLimitsIgnored == [][C21_TimeStep /\ C21_NodesStep]_vars

\* A successful call stores the candidate under the age next_age, smaller
\* than the age of every entry held, and uses that age up; a rejected call
\* leaves next_age alone.
C22_AgeStep ==
    call'.made =>
        IF call'.inserted
        THEN /\ \E i \in 1..Len(entries') :
                   entries'[i] = NewEntry(call'.solution, call'.value, next_age)
             /\ \A i \in 1..Len(entries) : next_age < entries[i].age
             /\ next_age' < next_age
        ELSE next_age' = next_age

C22_AgesDistinct ==
    \A i, k \in 1..Len(entries) : i # k => entries[i].age # entries[k].age

\* In a sorted pool, of two entries with objectives closer than the
\* tolerance the more recently inserted one (the smaller age) comes first.
C22_TieOrder ==
    sorted =>
        \A i, k \in 1..Len(entries) :
            (i < k /\ Abs(entries[i].value - entries[k].value) < SIMILARITY_THRESHOLD)
            => entries[i].age < entries[k].age

\* The age part of C22 alone: ages are assigned in strictly decreasing
\* order, rejected calls consume none, and the ages held are pairwise
\* distinct.
C22_AgesDecrease == []C22_AgesDistinct /\ [][C22_AgeStep]_vars

\* The order part of C22 for the calls whose sort is well defined: when the
\* comparator is a strict weak ordering of the entries handed to std::sort,
\* the sort leaves near ties in the order of their ages.
C22_TieOrderWhenOrdered ==
    [][(sorted /\ call'.made /\ call'.inserted
        /\ IsStrictWeakOrdering(entries', sense))
       => C22_TieOrder']_vars

\* C22: every successful add_entry stores an age smaller than every age
\* assigned before, rejected calls consume no age, the ages held are
\* pairwise distinct and, in a sorted pool, of two entries with objectives
\* within the tolerance the more recently inserted one comes first.
C22_AgeOrder == [](C22_AgesDistinct /\ C22_TieOrder) /\ [][C22_AgeStep]_vars

C23_FullStep ==
    (Full /\ call'.made /\ call'.inserted)
    => /\ Len(entries') = Len(entries)
       /\ \E k \in 1..Len(entries) :
             LET new == NewEntry(call'.solution, call'.value, next_age)
             IN /\ new \notin EntrySet(entries)
                /\ IF sorted
                   THEN EntrySet(entries') =
                            (EntrySet(entries) \ {entries[k]}) \cup {new}
                   ELSE entries' = [entries EXCEPT ![k] = new]

\* C23: a successful add_entry on a full pool changes exactly one entry: the
\* size is unchanged, the replaced entry receives the new solution, objective
\* and a fresh age, and all other entries are preserved, at the same
\* positions when the pool is unsorted and as a set when it is sorted.
C23_ReplaceOneEntry == [][C23_FullStep]_vars

\* An unsorted full pool of two entries in which the last call replaced
\* the first one.
C23_Witness ==
    /\ ~sorted /\ AfterReplacement /\ Len(entries) = 2
    /\ entries[1] = NewEntry(call.solution, call.value, next_age + 1)

\* The largest coordinate difference between two vectors.
Distance(a, b) ==
    CHOOSE d \in {Abs(a[j] - b[j]) : j \in 1..Len(a)} :
        \A j \in 1..Len(a) : Abs(a[j] - b[j]) <= d

UnderCapacity == Len(entries) < max_size

C24_StrictStep ==
    (call'.made /\ UnderCapacity
     /\ \A i \in 1..Len(entries) :
           ~WithinTolerance(call'.solution, entries[i].solution))
    => call'.inserted

\* C24 as stated: a candidate is taken for similar to an entry only when
\* every coordinate differs by strictly less than the tolerance; one that
\* differs from each entry by the tolerance or more in some coordinate is not
\* rejected as a duplicate (under capacity: is not rejected).
C24_SimilarStrictlyBelow == [][C24_StrictStep]_vars

C24_InclusiveStep ==
    call'.made =>
        /\ (\E i \in 1..Len(entries) :
               Distance(call'.solution, entries[i].solution) <= SIMILARITY_THRESHOLD)
           => ~call'.inserted /\ entries' = entries
        /\ (UnderCapacity
            /\ \A i \in 1..Len(entries) :
                  Distance(call'.solution, entries[i].solution) > SIMILARITY_THRESHOLD)
           => call'.inserted

\* C24, amended: a candidate is taken for similar to an entry when every
\* coordinate differs by at most the tolerance, so one whose largest
\* difference from some entry is exactly the tolerance is rejected; only a
\* candidate further than the tolerance from every entry in some coordinate
\* is not rejected as a duplicate.
C24_SimilarAtMost == [][C24_InclusiveStep]_vars

\* A pool under capacity rejected a candidate exactly the tolerance away
\* from its only entry.
C24_Witness ==
    /\ call.made /\ ~call.inserted
    /\ Len(entries) = 1 /\ max_size >= 2
    /\ Distance(call.solution, entries[1].solution) = SIMILARITY_THRESHOLD

\* A seed selection, resp. a pairwise selection, was the last one made.
SeedSelected == random_draws # <<>> /\ Len(selected) = 1

PairSelected == random_draws # <<>> /\ Len(selected) = 2

\* C27: for every pair of draws r1, r2 the mutation phase selects the seed
\* k = r1 mod poolSize, then, if k # 0, k = r2 mod k; the index selected is a
\* valid pool index, within [0, poolSize - 1].
C27_SeedSelection ==
    SeedSelected =>
        LET poolSize == Len(entries)
            k == random_draws[1] % poolSize
        IN /\ selected[1] = IF k # 0 THEN random_draws[2] % k ELSE k
           /\ selected[1] \in 0..(poolSize - 1)

\* In a pool of four entries the draws 7 and 5 select 7 mod 4 = 3, then
\* 5 mod 3 = 2.
C27_Witness ==
    /\ SeedSelected /\ Len(entries) = 4
    /\ random_draws = <<7, 5>> /\ selected = <<2>>

\* C28: in a pairwise recombination iteration, for every pair of draws, the
\* indices selected satisfy 0 <= idx1 < idx2 <= poolSize - 1, idx2 being
\* drawn over [1, poolSize - 1] and idx1 over [0, idx2 - 1]; the two parents
\* are distinct entries of the pool and the warm start is the entry at idx1.
C28_PairSelection ==
    PairSelected =>
        LET poolSize == Len(entries)
            idx1 == selected[1]
            idx2 == selected[2]
        IN /\ 0 <= idx1 /\ idx1 < idx2 /\ idx2 <= poolSize - 1
           /\ idx2 = (random_draws[1] % (poolSize - 1)) + 1
           /\ idx1 = random_draws[2] % idx2
           /\ entries[idx1 + 1] # entries[idx2 + 1]
           /\ mip_start = <<[from |-> "pool", index |-> idx1,
                             value |-> entries[idx1 + 1].value]>>

\* In a pool of four entries the draws 5 and 7 select idx2 = 5 mod 3 + 1 = 3
\* and idx1 = 7 mod 3 = 1.
C28_Witness ==
    /\ PairSelected /\ Len(entries) = 4
    /\ random_draws = <<5, 7>> /\ selected = <<1, 3>>

\* A solve step selects among the entries the pool holds when the step is
\* taken, and a recombination starts from the entry selected first as the
\* pool holds it then.
C25_PoolVisible ==
    /\ SolveStep =>
          \A k \in 1..Len(selected') : selected'[k] \in 0..(Len(entries) - 1)
    /\ RecombinationStep =>
          mip_start' = <<[from |-> "pool", index |-> selected'[1],
                          value |-> entries[selected'[1] + 1].value]>>

\* The solution a solve step found is compared with the running incumbent
\* as the steps before left it, and adopted exactly when it is better by
\* more than the tolerance.
C25_IncumbentVisible ==
    (SolveStep /\ submip_status' \in FoundStatuses)
    => LET better == IF sense = "Minimize"
                     THEN call'.value < incumbent_objective - THRESHOLD
                     ELSE call'.value > incumbent_objective + THRESHOLD
       IN /\ submip_has_improved' <=> better
          /\ incumbent_objective' =
                 IF better THEN call'.value ELSE incumbent_objective

\* The recombination loop is entered exactly when the pool, as the mutation
\* loop left it, holds two entries or more.
C25_PhaseVisible ==
    (MutationEnd /\ pc' # "fault") => (pc' = "recombination" <=> Len(entries) >= 2)

C26_PhaseStep ==
    /\ MutationStep => Len(entries) >= 1
    /\ RecombinationStep => Len(entries) >= 2
    /\ IterationStep => Len(entries) >= 1
    /\ Len(entries) = 0 => (entries' = entries /\ UNCHANGED adaptive_state)

\* C26: no sub-problem is started in a phase whose pool-size requirement is
\* not met (mutation needs one entry, recombination two, biased
\* recombination one), and with an empty pool a run changes neither the pool
\* nor fixing_fraction, offset, submip_min or submip_max.
C26_PhaseRequirements == [][C26_PhaseStep]_vars

\* A Polishing run on a pool of one entry ended: its mutation phase ran (the
\* offset 16 shrank to 12), its recombination phase did not.
C26_Witness ==
    /\ heuristic = "rothberg" /\ pc = "idle" /\ runs = 1
    /\ Len(entries) = 1 /\ num_recombinations = 2
    /\ offset = 12 /\ modes = <<>>

C29_Step ==
    (heuristic = "rothberg" /\ pc \in {"recombination", "report"})
    => UNCHANGED <<fixing_fraction, offset>>

\* C29: the recombination phase never changes fixing_fraction or offset,
\* whatever its sub-problems return: their values at the end of a Polishing
\* run are those at the end of its mutation phase.
C29_RecombinationFrame == [][C29_Step]_vars

\* A recombination sub-problem ended Infeasible without improvement, the
\* outcome after which a mutation lowers the fixing fraction.
C29_Witness ==
    /\ heuristic = "rothberg" /\ pc = "recombination" /\ loop_i = 1
    /\ submip_status = "Infeasible"
    /\ fixing_fraction > 0 /\ offset > 0

\* The 0/1 variables whose bounds are free in the sub-MIP extracted.
FreeVariables == {idx \in 1..Len(bounds) : bounds[idx] = [lb |-> 0, ub |-> ONE]}

\* max(1, floor(n * (submip_min + submip_max) / 2)).
C30_Size ==
    LET n == Len(incumbent_solution)
        half == (n * (submip_min + submip_max)) \div (2 * ONE)
    IN IF half > 1 THEN half ELSE 1

C30_Extracted ==
    (pc = "extract" /\ C30_Size <= Len(incumbent_solution))
    => /\ Cardinality(FreeVariables) = C30_Size
       /\ Len(freed) = C30_Size
       /\ \A i, k \in 1..Len(freed) : i # k => freed[i] # freed[k]
       /\ \A idx \in 1..Len(bounds) :
             idx \notin {freed[i] : i \in 1..Len(freed)}
             => bounds[idx] =
                    IF 2 * incumbent_solution[idx] > ONE
                    THEN [lb |-> ONE, ub |-> ONE]
                    ELSE [lb |-> 0, ub |-> 0]

\* C30 where the bias is a number: the sub-MIP extracted has the freed
\* variables the claim says.
C30_FreedWhenBiasDefined == bias # NaN => C30_Extracted

\* C30: in each biased-recombination iteration over n 0/1 variables the
\* number of variables freed is max(1, floor(n * (submip_min + submip_max) /
\* 2)) whenever that is at most n, the freed variables are pairwise distinct,
\* and every variable not drawn stays fixed to the rounded incumbent.
C30_FreedVariables == C30_Extracted

C31_WindowStep ==
    IterationStep =>
        LET step == ((submip_max - submip_min) * offset) \div ONE
        IN IF submip_has_improved'
           THEN submip_min' = submip_min /\ submip_max' = submip_max
           ELSE IF submip_status' \in {"Optimal", "Infeasible"}
                THEN submip_min' = submip_min + step /\ submip_max' = submip_max
                ELSE submip_max' = submip_max - step /\ submip_min' = submip_min

\* C31: after a biased-recombination iteration without improvement,
\* submip_min increases by (submip_max - submip_min) * offset if the
\* sub-problem ended Optimal or Infeasible (submip_max unchanged), otherwise
\* submip_max decreases by that amount (submip_min unchanged); after an
\* improving iteration both are unchanged.
C31_WindowUpdate == [][C31_WindowStep]_vars

\* The window 0..1 with offset 0.5 became 0.5..1 after an Infeasible
\* sub-problem.
C31_Witness ==
    /\ heuristic = "maravilha" /\ pc = "iterate" /\ current_iteration = 1
    /\ submip_status = "Infeasible" /\ offset = 32
    /\ submip_min = 32 /\ submip_max = 64

\* One pass of the loop "Build the sub-MIP".
FreeStep == heuristic = "maravilha" /\ pc = "build" /\ count' = count + 1

\* a == b on doubles: false when either side is NaN.
SameNumber(a, b) == a # NaN /\ b # NaN /\ a[1] = b[1]

\* The sum of the scores of the candidates that remain.
RemainingScore == SumTo(variables_available, differences, Len(differences))

\* The pass removed the first remaining candidate (ascending index) whose
\* cumulative score reaches draw * remaining_sum and subtracted its score.
PickedFirstReaching ==
    \E r \in RandomFractions : \E idx \in variables_available :
        /\ Geq(SumTo(variables_available, differences, idx),
               Scale(r, sum_differences))
        /\ \A j \in variables_available :
              j < idx => ~Geq(SumTo(variables_available, differences, j),
                              Scale(r, sum_differences))
        /\ variables_available' = variables_available \ {idx}
        /\ SameNumber(sum_differences', Sub(sum_differences, differences[idx]))
        /\ freed' = Append(freed, idx)
        /\ \A k \in 1..Len(freed) : freed[k] # idx

C32_DrawStep ==
    FreeStep => SameNumber(sum_differences, RemainingScore) /\ PickedFirstReaching

\* The same where the bias of the iteration is a number.
C32_DrawWhenBiasDefined == [][bias # NaN => C32_DrawStep]_vars

\* C32: the weighted draw is without replacement: each draw picks the first
\* remaining candidate, in ascending variable index, whose cumulative score
\* reaches draw * remaining_sum, removes it from the candidates and
\* subtracts its score; no variable is drawn twice in an iteration and
\* before every draw remaining_sum equals the sum of the scores of the
\* remaining candidates.
C32_WeightedDraw == [][C32_DrawStep]_vars

\* The entry the iteration selected from the pool.
SelectedEntry == entries[selected[1] + 1]

\* The bias of the iteration was computed.
BiasComputed == heuristic = "maravilha" /\ pc \in {"build", "extract"}

\* feas_bias and rel_bias of the iteration are each in [0,1].
C36_GapsClipped ==
    BiasComputed =>
        /\ FeasBias(SelectedEntry.value, incumbent_objective) \in 0..ONE
        /\ RelBias(incumbent_objective, relaxed_objective) \in 0..ONE

\* C36: in every biased-recombination iteration the bias is well defined and
\* in [0,1]: feas_bias and rel_bias are each in [0,1] and their sum, the
\* denominator of bias = 1 - feas_bias / (feas_bias + rel_bias), is strictly
\* positive for every entry, incumbent and relaxed objective.
C36_BiasDefined ==
    BiasComputed =>
        /\ FeasBias(SelectedEntry.value, incumbent_objective) \in 0..ONE
        /\ RelBias(incumbent_objective, relaxed_objective) \in 0..ONE
        /\ FeasBias(SelectedEntry.value, incumbent_objective)
               + RelBias(incumbent_objective, relaxed_objective) > 0
        /\ bias # NaN
        /\ bias[1] \in 0..ONE

\* The best objective held by a non-empty pool.
BestValue(es, s) ==
    CHOOSE b \in {es[i].value : i \in 1..Len(es)} :
        \A i \in 1..Len(es) : NotWorse(s, b, es[i].value)

C35_BestStep ==
    entries # <<>> =>
        /\ entries' # <<>>
        /\ NotWorse(sense, BestValue(entries', sense), BestValue(entries, sense))
        /\ \A i \in 1..Len(entries) :
              (/\ entries[i].value = BestValue(entries, sense)
               /\ entries[i] \notin EntrySet(entries'))
              => /\ call'.inserted
                 /\ StrictlyBetter(sense, call'.value, entries[i].value)

\* C35: across any sequence of add_entry calls, under capacity or full, the
\* best objective held in the pool never gets worse: the entry with the best
\* objective is never evicted unless by an entry with a strictly better
\* objective.
C35_BestNeverWorse == [][C35_BestStep]_vars

\* The only entry of a pool of capacity one, the best one, was evicted by a
\* candidate of a strictly better objective.
C35_Witness ==
    /\ AfterReplacement /\ max_size = 1
    /\ entries[1].solution = call.solution /\ entries[1].value = call.value
    /\ call.value = (IF sense = "Minimize" THEN 8 ELSE 12)

\* The same entries with their objectives negated, and the opposite sense.
Mirror(es) == [i \in 1..Len(es) |-> [es[i] EXCEPT !.value = -@]]

Opposite(s) == IF s = "Minimize" THEN "Maximize" ELSE "Minimize"

\* The call just made, on the pool as it was, and the same call with the
\* objective negated on the mirrored pool of the opposite sense: the results
\* of the second are the results of the first, objectives negated.
C38_MirrorStep ==
    LET direct == AddEntry(entries, next_age, max_size, sense, sorted,
                           call'.solution, call'.value)
        mirrored == AddEntry(Mirror(entries), next_age, max_size,
                             Opposite(sense), sorted,
                             call'.solution, -call'.value)
    IN /\ [entries |-> entries', next_age |-> next_age',
           inserted |-> call'.inserted] \in direct
       /\ mirrored = {[entries |-> Mirror(r.entries), next_age |-> r.next_age,
                       inserted |-> r.inserted] : r \in direct}

\* C38: a Maximize pool mirrors a Minimize pool: the same solutions with
\* negated objectives on a pool of the opposite sense give the same return
\* values and the same entries in the same order, objectives negated, for
\* sorted and unsorted pools.
C38_SenseMirror == [][C38_MirrorStep]_vars

\* A full sorted Maximize pool after a replacement, the larger objective
\* first.
C38_Witness ==
    /\ AfterReplacement /\ sense = "Maximize" /\ sorted /\ max_size = 2
    /\ entries[1].value > entries[2].value
    /\ entries[2].value = call.value

\* An earlier poll of the controller raised abort.
AbortRaisedBefore == aborted \/ abort_called

C37_LatchedStep ==
    (PollStep /\ AbortRaisedBefore) =>
        /\ ~abort_called'
        /\ aborted /\ aborted'
        /\ UNCHANGED <<initialized, obj_last_incumbent, nodes_last_incumbent>>

\* C37: abort is latched: once a poll raised abort, every later poll returns
\* at once, whatever the timer and the node count show, without changing
\* the stagnation baseline and without raising abort again.
C37_AbortLatched == [][C37_LatchedStep]_vars

\* A poll after the abort, with the time limit and the node limit both
\* reached and more nodes explored than at the abort, raised nothing.
C37_Witness ==
    /\ aborted /\ ~abort_called /\ polls >= 2
    /\ timer_set /\ time_limit >= 0 /\ timer >= time_limit
    /\ nnodes >= nodes_limit

\* C40: in a pool of two entries or more the mutation seed never selects the
\* last index, and in a pool of exactly two it always selects index 0, for
\* every pair of draws.
C40_SeedNeverLast ==
    (SeedSelected /\ Len(entries) >= 2) =>
        /\ selected[1] # Len(entries) - 1
        /\ Len(entries) = 2 => selected[1] = 0

\* In a pool of two entries the first draw gives index 1, the last one, and
\* the second draw brings the seed back to index 0.
C40_Witness ==
    /\ SeedSelected /\ Len(entries) = 2
    /\ random_draws[1] % 2 = 1 /\ selected = <<0>>

\* A solve step whose sub-problem returned a solution.
FoundStep == SolveStep /\ submip_status' \in FoundStatuses

C39_HarvestStep ==
    FoundStep =>
        /\ call'.made
        /\ [entries |-> entries', next_age |-> next_age',
            inserted |-> call'.inserted]
               \in AddEntry(entries, next_age, max_size, sense, sorted,
                            call'.solution, call'.value)
        /\ incumbent_objective' =
               IF IF sense = "Minimize"
                  THEN call'.value < incumbent_objective - THRESHOLD
                  ELSE call'.value > incumbent_objective + THRESHOLD
               THEN call'.value
               ELSE incumbent_objective
        /\ submip_has_improved' = (incumbent_objective' # incumbent_objective)

\* C39: every solution a sub-problem returns is offered to the pool, as the
\* pool is before the adoption test; the adoption depends only on the
\* comparison of its objective with the running incumbent, not on what
\* add_entry returned; the solution of a sub-problem stopped by its budget
\* is harvested the same way.
C39_HarvestIndependent == [][C39_HarvestStep]_vars

\* The solution of a sub-problem stopped before optimality was refused by
\* the pool and adopted as the incumbent.
C39_Witness ==
    /\ pc \in {"mutation", "recombination", "iterate"}
    /\ submip_status = "Feasible" /\ submip_has_improved
    /\ call.made /\ ~call.inserted
    /\ incumbent_objective = call.value
    /\ StrictlyBetter(sense, incumbent_objective, start_objective)

\* A new sub-MIP solve is about to start: the callback is installed.
UseStep == pc = "extract" /\ pc' = "solve"

\* The controller installed is new: not aborted, no baseline, no poll made,
\* with the timer and the time limit of the run.
C33_FreshController ==
    /\ ~initialized' /\ ~aborted' /\ ~abort_called' /\ polls' = 0
    /\ timer_set' /\ UNCHANGED <<timer, time_limit>>
    /\ nodes_limit' = ULLONG_MAX

\* The first poll of a solve aborts only for a limit reached, never for
\* stagnation, and otherwise takes the baseline from the solve polled.
C33_FirstPoll ==
    (pc = "solve" /\ polls = 0 /\ PollStep) =>
        /\ abort_called' => LimitAtPoll
        /\ ~abort_called' =>
              /\ initialized'
              /\ obj_last_incumbent' = obj_current_incumbent'
              /\ nodes_last_incumbent' = nnodes'

\* C33 as stated: every sub-MIP solve is polled by a newly created
\* controller that starts not aborted and without stagnation baseline; an
\* abort, a recorded incumbent objective or a node count of an earlier solve
\* never carries over; the controller carries the time limit of the run and
\* the stagnation limit submip_nodes_unsuccessful.
C33_ControllerPerSolve ==
    [][/\ PollStep => pc = "solve"
       /\ UseStep => /\ C33_FreshController
                     /\ nodes_unsuccessful' = submip_nodes_unsuccessful
       /\ C33_FirstPoll]_vars

\* C33, amended: the same, the stagnation limit being
\* submip_nodes_unsuccessful converted to unsigned long long, which is the
\* value itself when it is not negative.
C33_ControllerConverted ==
    [][/\ PollStep => pc = "solve"
       /\ UseStep => /\ C33_FreshController
                     /\ nodes_unsuccessful' =
                            submip_nodes_unsuccessful % (ULLONG_MAX + 1)
                     /\ submip_nodes_unsuccessful >= 0
                            => nodes_unsuccessful' = submip_nodes_unsuccessful
       /\ C33_FirstPoll]_vars

\* The second solve of a run was polled once, at a node count at which the
\* stagnation limit 0 leaves no room, and took its own baseline.
C33_Witness ==
    /\ pc = "solve" /\ loop_i = 1 /\ polls = 1
    /\ initialized /\ ~aborted
    /\ nodes_unsuccessful = 0 /\ nnodes = 1 /\ nodes_last_incumbent = 1

\* Every solve is one iteration of its loop below the configured count, and
\* no loop is entered twice in a run.
C34_CountStep ==
    /\ MutationStep => loop_i < num_mutations
    /\ RecombinationStep => loop_i < num_recombinations
    /\ IterationStep => current_iteration < iterations
    /\ (pc' = "mutation" /\ pc # "mutation") => pc = "idle" /\ loop_i' = 0
    /\ (pc' = "recombination" /\ pc # "recombination")
          => pc = "mutation" /\ loop_i' = 0
    /\ (pc' = "iterate" /\ pc # "iterate") => pc = "idle" /\ current_iteration' = 0
    /\ SolveStep => ~(timer >= time_limit)

\* A run that was started returns.
C34_RunReturns == (pc # "idle") ~> (pc = "idle")

\* A run that was started returns unless the remainder by zero of C18 traps.
C34_ReturnsUnlessTrap == (pc # "idle") ~> (pc \in {"idle", "fault"})

\* The bound on the solves of a run alone.
C34_SolvesBounded == [][C34_CountStep]_vars

\* C34: a run of either heuristic always terminates, after at most
\* num_mutations + num_recombinations (Rothberg) or iterations (Maravilha)
\* sub-MIP solves, given that each solve returns; when the time limit is
\* reached the loops exit before their counts are reached.
C34_RunTerminates == C34_RunReturns /\ [][C34_CountStep]_vars

====
